---- MODULE Spec2Model ----
(***************************************************************************)
(* Turn-taking pipeline of the IELTS speaking coach:                       *)
(*   audio/pause_detector.py      PauseDetector                            *)
(*   audio/audio_capture.py       AudioBuffer, AudioCapture                *)
(*   engine/conversation_state.py ConversationStateMachine                 *)
(*   engine/buffer_manager.py     BufferManager                            *)
(*   engine/turn_manager.py       TurnManager                              *)
(* Times are integers in milliseconds; relevance scores are integers in    *)
(* hundredths (0.6 is 60).                                                 *)
(***************************************************************************)
EXTENDS Integers, Sequences, FiniteSets, TLC

(* ------------------------------ bounds -------------------------------- *)
\* largest min_speech_chunks a detector is constructed with
MaxMinSpeech == 3
\* largest pause_threshold_chunks a detector is constructed with
MaxPause == 3
\* chunks fed to a detector between two resets
MaxFed == 8
\* the clock advances in steps of TickMs up to MaxTime
TickMs == 5000
MaxTime == 15000
\* successful transitions recorded between two ConversationStateMachine resets
MaxTransitions == 4
\* BufferedResponse objects created, and decisions recorded
MaxStores == 2
MaxDecisions == 2
\* audio chunks the capture pipeline is fed in one run
MaxChunks == 8
\* frames the WebRTC callback delivers in one run, and the samples of the
\* longest of them
MaxFrames == 2
MaxFrameSamples == 1025
\* threads calling AudioBuffer.add_frame, one call each, and calls the thread
\* reading the buffer makes
MaxProducers == 2
MaxConsumerCalls == 2
\* threads that call TurnManager.process_turn on the same objects
MaxPollers == 2

VARIABLES
  now,                      \* time.time(), in ms
  min_speech_chunks,        \* PauseDetector.min_speech_chunks
  pause_threshold_chunks,   \* PauseDetector.pause_threshold_chunks
  pd_state,                 \* PauseDetector._state
  speech_chunk_count,       \* PauseDetector._speech_chunk_count
  silence_chunk_count,      \* PauseDetector._silence_chunk_count
  speech_start_time,        \* PauseDetector._speech_start_time
  pdLog,                    \* one record per process() call since the last reset()
  pdOp,                     \* the last PauseDetector call: "init", "process", "reset"
  conv_state,               \* ConversationStateMachine._state
  state_enter_time,         \* ConversationStateMachine._state_enter_time
  transition_history,       \* ConversationStateMachine._transition_history
  csmLast,                  \* the last ConversationStateMachine call and its outcome
  merge_enabled,            \* config.BUFFER_MERGE_ENABLED
  buffer,                   \* BufferManager._buffer: <<>> for None, else <<response>>
  decision_history,         \* BufferManager._decision_history
  stored,                   \* number of BufferedResponse objects created so far
  decided,                  \* the responses decide() has returned, by creation number
  bmLast,                   \* the last BufferManager call and its outcome
  chunks,                   \* audio chunks handed to _process_chunk so far
  heard,                    \* the VAD's is_speech decision for each of them
  last_vad_confidence,      \* AudioCapture._last_vad_confidence, in hundredths
  vad_state,                \* chunks the VAD model has seen since its reset_states()
  frames_in,                \* the number of samples of each frame process_audio_frame
                            \* has been called with
  pending,                  \* process_audio_frame's loop: the chunks of the current
                            \* frame not yet passed to _process_chunk
  passed,                   \* the chunks process_audio_frame has passed on so far
  frame_call,               \* the last process_audio_frame call: how it ended and
                            \* what the detector, accumulator and queue were before
  acLast,                   \* the last has_completed_turn / get_turn_audio call
                            \* and what it returned
  current_state,            \* AudioCapture._current_state
  audio_frames,             \* AudioBuffer._frames: the frames held, each a sequence
                            \* of samples
  ab_lock,                  \* AudioBuffer._lock: the thread holding it, or Unlocked
  ab_pc,                    \* where each thread using the AudioBuffer is
  ab_local,                 \* each thread's argument or local value
  ab_called,                \* frames add_frame has been called with
  ab_returned,              \* frames whose add_frame call has returned
  ab_ops,                   \* the calls the reading thread has completed
  completed_turns,          \* AudioCapture._completed_turns: a queue of turn audios
  llm,                      \* which of TurnManager's LLM callables are injected
  memory,                   \* ConversationMemory._turns
  last_user_text,           \* TurnManager._last_user_text
  taken,                    \* the turn audios process_turn has taken from the queue
  pt_pc,                    \* where each thread calling process_turn is, and the
                            \* turn audio it holds
  tmLast                    \* the last TurnManager call and its outcome

pdVars == <<min_speech_chunks, pause_threshold_chunks, pd_state, speech_chunk_count,
            silence_chunk_count, speech_start_time, pdLog, pdOp>>

csmVars == <<conv_state, state_enter_time, transition_history, csmLast>>

bmVars == <<merge_enabled, buffer, decision_history, stored, decided, bmLast>>

abVars == <<ab_lock, ab_pc, ab_local, ab_called, ab_returned, ab_ops>>

fcVars == <<frames_in, pending, passed, frame_call, acLast>>

acVars == <<chunks, heard, last_vad_confidence, vad_state, fcVars, current_state,
            audio_frames, completed_turns, abVars>>

tmVars == <<llm, memory, last_user_text, taken, pt_pc, tmLast>>

vars == <<now, pdVars, csmVars, bmVars, acVars, tmVars>>

(* ------------------------------ clock --------------------------------- *)
\* Python's None for an Optional[float]
NoTime == -1

Tick ==
  /\ now + TickMs <= MaxTime
  /\ now' = now + TickMs
  /\ UNCHANGED <<pdVars, csmVars, bmVars, acVars, tmVars>>

(* --------------------------- PauseDetector ---------------------------- *)
PauseState == {"SILENCE", "SPEECH_STARTED", "SPEAKING", "MAYBE_DONE", "TURN_COMPLETE"}

\* the detector's mutable fields as one record
PdSelf ==
  [state |-> pd_state, speech |-> speech_chunk_count,
   silence |-> silence_chunk_count, start |-> speech_start_time]

\* a step's outcome: the fields plus which callbacks the step invokes
PdOut(st, fs, ft) ==
  [state |-> st.state, speech |-> st.speech, silence |-> st.silence,
   start |-> st.start, fire_start |-> fs, fire_turn |-> ft]

\* mutant of OnSilence: the first speech chunk of a run is promoted at once
OnSilence_Promotes(self, is_speech) ==
  IF is_speech
    THEN PdOut([self EXCEPT !.state = "SPEAKING", !.speech = 1, !.silence = 0],
               TRUE, FALSE)
    ELSE PdOut(self, FALSE, FALSE)

\* process(), branch self._state == SILENCE
OnSilence(self, is_speech) ==
  IF is_speech
    THEN PdOut([self EXCEPT !.state = "SPEECH_STARTED", !.speech = 1, !.silence = 0],
               FALSE, FALSE)
    ELSE PdOut(self, FALSE, FALSE)

\* mutants of OnSpeechStarted: a silence chunk does not discard the tentative
\* speech; the promotion fires one chunk early
OnSpeechStarted_NoDiscard(self, is_speech, m, t) ==
  IF is_speech
    THEN IF self.speech + 1 >= m
           THEN PdOut([self EXCEPT !.speech = self.speech + 1, !.state = "SPEAKING",
                                   !.start = t], TRUE, FALSE)
           ELSE PdOut([self EXCEPT !.speech = self.speech + 1], FALSE, FALSE)
    ELSE PdOut(self, FALSE, FALSE)

OnSpeechStarted_OneEarly(self, is_speech, m, t) ==
  IF is_speech
    THEN IF self.speech + 1 >= m - 1
           THEN PdOut([self EXCEPT !.speech = self.speech + 1, !.state = "SPEAKING",
                                   !.start = t], TRUE, FALSE)
           ELSE PdOut([self EXCEPT !.speech = self.speech + 1], FALSE, FALSE)
    ELSE PdOut([self EXCEPT !.state = "SILENCE", !.speech = 0], FALSE, FALSE)

\* process(), branch self._state == SPEECH_STARTED
OnSpeechStarted(self, is_speech, m, t) ==
  IF is_speech
    THEN IF self.speech + 1 >= m
           THEN PdOut([self EXCEPT !.speech = self.speech + 1, !.state = "SPEAKING",
                                   !.start = t], TRUE, FALSE)
           ELSE PdOut([self EXCEPT !.speech = self.speech + 1], FALSE, FALSE)
    ELSE PdOut([self EXCEPT !.state = "SILENCE", !.speech = 0], FALSE, FALSE)

\* process(), branch self._state == SPEAKING
OnSpeaking(self, is_speech) ==
  IF is_speech
    THEN PdOut([self EXCEPT !.silence = 0], FALSE, FALSE)
    ELSE PdOut([self EXCEPT !.silence = 1, !.state = "MAYBE_DONE"], FALSE, FALSE)

\* mutant of OnMaybeDone: resumed speech reports a speech start again
OnMaybeDone_FiresOnResume(self, is_speech, p) ==
  IF is_speech
    THEN PdOut([self EXCEPT !.state = "SPEAKING", !.silence = 0], TRUE, FALSE)
    ELSE IF self.silence + 1 >= p
           THEN PdOut([self EXCEPT !.silence = self.silence + 1,
                                   !.state = "TURN_COMPLETE"], FALSE, TRUE)
           ELSE PdOut([self EXCEPT !.silence = self.silence + 1], FALSE, FALSE)

\* mutants of OnMaybeDone: the threshold test is strict; resumed speech keeps
\* the silence counter
OnMaybeDone_Strict(self, is_speech, p) ==
  IF is_speech
    THEN PdOut([self EXCEPT !.state = "SPEAKING", !.silence = 0], FALSE, FALSE)
    ELSE IF self.silence + 1 > p
           THEN PdOut([self EXCEPT !.silence = self.silence + 1,
                                   !.state = "TURN_COMPLETE"], FALSE, TRUE)
           ELSE PdOut([self EXCEPT !.silence = self.silence + 1], FALSE, FALSE)

OnMaybeDone_KeepsSilence(self, is_speech, p) ==
  IF is_speech
    THEN PdOut([self EXCEPT !.state = "SPEAKING"], FALSE, FALSE)
    ELSE IF self.silence + 1 >= p
           THEN PdOut([self EXCEPT !.silence = self.silence + 1,
                                   !.state = "TURN_COMPLETE"], FALSE, TRUE)
           ELSE PdOut([self EXCEPT !.silence = self.silence + 1], FALSE, FALSE)

\* process(), branch self._state == MAYBE_DONE
OnMaybeDone(self, is_speech, p) ==
  IF is_speech
    THEN PdOut([self EXCEPT !.state = "SPEAKING", !.silence = 0], FALSE, FALSE)
    ELSE IF self.silence + 1 >= p
           THEN PdOut([self EXCEPT !.silence = self.silence + 1,
                                   !.state = "TURN_COMPLETE"], FALSE, TRUE)
           ELSE PdOut([self EXCEPT !.silence = self.silence + 1], FALSE, FALSE)

\* mutant of OnTurnComplete: speech after a completed turn starts a new one
OnTurnComplete_Restarts(self, is_speech) ==
  IF is_speech
    THEN PdOut([self EXCEPT !.state = "SPEECH_STARTED", !.speech = 1, !.silence = 0],
               FALSE, FALSE)
    ELSE PdOut(self, FALSE, FALSE)

\* process(), branch self._state == TURN_COMPLETE
OnTurnComplete(self, is_speech) ==
  PdOut(self, FALSE, FALSE)

\* PauseDetector.process as a function of the fields, the input and the clock
process(self, is_speech, m, p, t) ==
  CASE self.state = "SILENCE"        -> OnSilence(self, is_speech)
    [] self.state = "SPEECH_STARTED" -> OnSpeechStarted(self, is_speech, m, t)
    [] self.state = "SPEAKING"       -> OnSpeaking(self, is_speech)
    [] self.state = "MAYBE_DONE"     -> OnMaybeDone(self, is_speech, p)
    [] self.state = "TURN_COMPLETE"  -> OnTurnComplete(self, is_speech)

\* mutant of reset: the speech start time survives
reset_KeepsStart(self) ==
  [state |-> "SILENCE", speech |-> 0, silence |-> 0, start |-> self.start]

\* PauseDetector.reset as a function of the fields
reset(self) ==
  [state |-> "SILENCE", speech |-> 0, silence |-> 0, start |-> NoTime]

\* PauseDetector.speech_duration_ms at clock reading t
speech_duration_ms(self, t) ==
  IF self.start = NoTime THEN 0 ELSE t - self.start

\* the entry pdLog gets for one process() call
PdLogEntry(is_speech, self, r) ==
  [in |-> is_speech, prev |-> self.state, state |-> r.state, speech |-> r.speech,
   silence |-> r.silence, start |-> r.start, fire_start |-> r.fire_start, fire_turn |-> r.fire_turn]

\* the detector's fields become those of record r
PdAssign(r) ==
  /\ pd_state' = r.state
  /\ speech_chunk_count' = r.speech
  /\ silence_chunk_count' = r.silence
  /\ speech_start_time' = r.start

\* a caller feeds one VAD decision to PauseDetector.process
Process(is_speech) ==
  /\ Len(pdLog) < MaxFed
  /\ LET r == process(PdSelf, is_speech, min_speech_chunks, pause_threshold_chunks, now)
     IN /\ PdAssign(r)
        /\ pdLog' = Append(pdLog, PdLogEntry(is_speech, PdSelf, r))
  /\ pdOp' = "process"
  /\ UNCHANGED <<now, min_speech_chunks, pause_threshold_chunks, csmVars, bmVars, acVars,
               tmVars>>

\* a caller invokes PauseDetector.reset
Reset ==
  /\ PdAssign(reset(PdSelf))
  /\ pdLog' = <<>>
  /\ pdOp' = "reset"
  /\ UNCHANGED <<now, min_speech_chunks, pause_threshold_chunks, csmVars, bmVars, acVars,
               tmVars>>

\* PauseDetector.__init__: the thresholds are int(ms / chunk_ms) of the
\* arguments, here m and p chunks
PdInit(m, p) ==
  /\ min_speech_chunks = m
  /\ pause_threshold_chunks = p
  /\ pd_state = "SILENCE"
  /\ speech_chunk_count = 0
  /\ silence_chunk_count = 0
  /\ speech_start_time = NoTime
  /\ pdLog = <<>>
  /\ pdOp = "init"


(* ---------------------- ConversationStateMachine ---------------------- *)
ConversationState == {"IDLE", "LISTENING", "PROCESSING", "SPEAKING", "BUFFERING"}

\* the history keeps its last HISTORY_KEEP entries once it exceeds HISTORY_CAP
HISTORY_CAP == 100
HISTORY_KEEP == 50

\* mutant of VALID_TRANSITIONS: a turn may start straight from IDLE
VALID_TRANSITIONS_FromIdle(s) ==
  CASE s = "IDLE"       -> {"LISTENING", "PROCESSING"}
    [] s = "LISTENING"  -> {"PROCESSING", "IDLE"}
    [] s = "PROCESSING" -> {"SPEAKING", "LISTENING"}
    [] s = "SPEAKING"   -> {"LISTENING", "BUFFERING", "IDLE"}
    [] s = "BUFFERING"  -> {"PROCESSING", "LISTENING"}

\* _VALID_TRANSITIONS
VALID_TRANSITIONS(s) ==
  CASE s = "IDLE"       -> {"LISTENING"}
    [] s = "LISTENING"  -> {"PROCESSING", "IDLE"}
    [] s = "PROCESSING" -> {"SPEAKING", "LISTENING"}
    [] s = "SPEAKING"   -> {"LISTENING", "BUFFERING", "IDLE"}
    [] s = "BUFFERING"  -> {"PROCESSING", "LISTENING"}

\* mutant of LastN: the first k elements are kept
LastN_First(h, k) == IF Len(h) <= k THEN h ELSE SubSeq(h, 1, k)

\* the last k elements of sequence h (Python's h[-k:])
LastN(h, k) == IF Len(h) <= k THEN h ELSE SubSeq(h, Len(h) - k + 1, Len(h))

\* the state machine's fields as one record
CsmSelf ==
  [state |-> conv_state, enter |-> state_enter_time, history |-> transition_history]

\* what a call leaves: the fields, whether it raised ValueError, the pair the
\* error message names
CsmOut(self, raised, error) ==
  [state |-> self.state, enter |-> self.enter, history |-> self.history,
   raised |-> raised, error |-> error]

\* mutant of transition_to: the state is assigned before the target is validated
transition_to_AssignFirst(self, new_state, t) ==
  IF new_state \notin VALID_TRANSITIONS(self.state)
    THEN CsmOut([self EXCEPT !.state = new_state, !.enter = t], TRUE,
                <<self.state, new_state>>)
    ELSE LET h == Append(self.history,
                         [from |-> self.state, to |-> new_state, timestamp |-> t])
         IN CsmOut([state |-> new_state, enter |-> t,
                    history |-> IF Len(h) > HISTORY_CAP THEN LastN(h, HISTORY_KEEP) ELSE h],
                   FALSE, <<>>)

\* transition_to, lines 78-92: the assignments made once the target has
\* been accepted
enter_state(self, new_state, t) ==
  LET h == Append(self.history,
                  [from |-> self.state, to |-> new_state, timestamp |-> t])
  IN CsmOut([state |-> new_state, enter |-> t,
             history |-> IF Len(h) > HISTORY_CAP THEN LastN(h, HISTORY_KEEP) ELSE h],
            FALSE, <<>>)

\* ConversationStateMachine.transition_to
transition_to(self, new_state, t) ==
  IF new_state \notin VALID_TRANSITIONS(self.state)
    THEN CsmOut(self, TRUE, <<self.state, new_state>>)
    ELSE enter_state(self, new_state, t)

\* the state machine's fields become those of record r
CsmAssign(r) ==
  /\ conv_state' = r.state
  /\ state_enter_time' = r.enter
  /\ transition_history' = r.history

\* the record csmLast gets for a call op(target) made in state self.state
CsmCall(op, self, target, r) ==
  [op |-> op, from |-> self.state, target |-> target, ok |-> ~r.raised,
   error |-> r.error]

\* ConversationStateMachine.state_duration_ms at time t
state_duration_ms(self, t) == t - self.enter

\* a caller invokes the method op, which is transition_to(target), while the
\* history holds fewer than bound entries
TransitionWithin(op, target, bound) ==
  LET r == transition_to(CsmSelf, target, now)
  IN /\ ~r.raised => Len(transition_history) < bound
     /\ CsmAssign(r)
     /\ csmLast' = CsmCall(op, CsmSelf, target, r)
     /\ UNCHANGED <<now, pdVars, bmVars, acVars, tmVars>>

Transition(op, target) == TransitionWithin(op, target, MaxTransitions)

TransitionTo(target) == Transition("transition_to", target)
StartListening == Transition("start_listening", "LISTENING")
StartProcessing == Transition("start_processing", "PROCESSING")
StartSpeaking == Transition("start_speaking", "SPEAKING")
StartBuffering == Transition("start_buffering", "BUFFERING")
BackToListening == Transition("back_to_listening", "LISTENING")
BackToIdle == Transition("back_to_idle", "IDLE")

\* a session that keeps switching the microphone on and off: the two
\* transitions between IDLE and LISTENING, however long the history is
MicOn == TransitionWithin("start_listening", "LISTENING", HISTORY_CAP + 1)
MicOff == TransitionWithin("back_to_idle", "IDLE", HISTORY_CAP + 1)

\* mutant of CanTransitionTo: the query restarts the state's clock
CanTransitionTo_Touches(target) ==
  /\ csmLast' = [op |-> "can_transition_to", from |-> conv_state, target |-> target,
                 ok |-> target \in VALID_TRANSITIONS(conv_state), error |-> <<>>]
  /\ state_enter_time' = now
  /\ UNCHANGED <<now, pdVars, bmVars, acVars, tmVars, conv_state, transition_history>>

\* ConversationStateMachine.can_transition_to: a query
CanTransitionTo(target) ==
  /\ csmLast' = [op |-> "can_transition_to", from |-> conv_state, target |-> target,
                 ok |-> target \in VALID_TRANSITIONS(conv_state), error |-> <<>>]
  /\ UNCHANGED <<now, pdVars, bmVars, acVars, tmVars, conv_state, state_enter_time,
               transition_history>>

\* mutant of CsmReset: the reset goes through transition_to
CsmReset_Validated ==
  LET r == transition_to(CsmSelf, "IDLE", now)
  IN /\ CsmAssign(r)
     /\ csmLast' = [op |-> "reset", from |-> conv_state, target |-> "IDLE",
                    ok |-> ~r.raised, error |-> r.error]
     /\ UNCHANGED <<now, pdVars, bmVars, acVars, tmVars>>

\* ConversationStateMachine.reset
CsmReset ==
  /\ conv_state' = "IDLE"
  /\ state_enter_time' = now
  /\ transition_history' = <<>>
  /\ csmLast' = [op |-> "reset", from |-> conv_state, target |-> "IDLE", ok |-> TRUE,
                 error |-> <<>>]
  /\ UNCHANGED <<now, pdVars, bmVars, acVars, tmVars>>

\* ConversationStateMachine.__init__
CsmInit ==
  /\ conv_state = "IDLE"
  /\ state_enter_time = now
  /\ transition_history = <<>>
  /\ csmLast = [op |-> "init", from |-> "IDLE", target |-> "IDLE", ok |-> TRUE,
                error |-> <<>>]

(* --------------------------- BufferManager ---------------------------- *)
\* config.BUFFER_RELEVANCE_THRESHOLD (0.6), in hundredths
BUFFER_RELEVANCE_THRESHOLD == 60
\* config.BUFFER_MAX_AGE_MS
BUFFER_MAX_AGE_MS == 10000
\* the bounded decision history: its last DECISIONS_KEEP entries are kept once
\* it exceeds DECISIONS_CAP
DECISIONS_CAP == 50
DECISIONS_KEEP == 25

\* Python's None for an Optional[float] relevance score
NoScore == -1
\* the relevance scores a caller passes: None, or a value of [0, 1] in hundredths
Scores == {NoScore, 0, 59, 60, 80}
\* response texts, context summaries (the default is "") and user inputs
Texts == {"a", "b"}
Contexts == {""}
UserTexts == {"u"}

\* BufferedResponse(text=..., context_summary=...) created at time t; id numbers
\* the objects in creation order
BufferedResponse(text, ctx, t, id) ==
  [text |-> text, created_at |-> t, context_summary |-> ctx,
   relevance_score |-> NoScore, id |-> id]

\* BufferedResponse.age_ms
age_ms(b, t) == t - b.created_at

\* mutant of is_expired: a response is expired from max-age on
is_expired_AtMaxAge(b, t) == age_ms(b, t) >= BUFFER_MAX_AGE_MS

\* BufferedResponse.is_expired
is_expired(b, t) == age_ms(b, t) > BUFFER_MAX_AGE_MS

\* BufferManager.has_buffer
has_buffer(buf) == buf # <<>>

\* mutant of store: the new response is queued behind the held one
store_Queues(buf, text, ctx, t, id) ==
  Append(buf, BufferedResponse(text, ctx, t, id))

\* BufferManager.store: the value of self._buffer after the call
store(buf, text, ctx, t, id) ==
  <<BufferedResponse(text, ctx, t, id)>>

\* decide()'s decision tree: the action and the reason it logs
DecisionTree(b, relevance_score, topic_changed, t, merge) ==
  IF is_expired(b, t)
    THEN [action |-> "DROP", reason |-> "expired"]
  ELSE IF topic_changed
    THEN [action |-> "DROP", reason |-> "user changed topics"]
  ELSE IF relevance_score # NoScore
    THEN IF relevance_score >= BUFFER_RELEVANCE_THRESHOLD
           THEN IF merge
                  THEN [action |-> "MERGE", reason |-> "relevant, merging"]
                  ELSE [action |-> "CONTINUE", reason |-> "relevant, using as-is"]
           ELSE [action |-> "DROP", reason |-> "low relevance"]
  ELSE [action |-> "DROP", reason |-> "no relevance score provided"]

\* decide() sets buffer.relevance_score in the branch that reads the score
Scored(b, relevance_score, topic_changed, t) ==
  IF ~is_expired(b, t) /\ ~topic_changed /\ relevance_score # NoScore
    THEN [b EXCEPT !.relevance_score = relevance_score]
    ELSE b

\* mutant of Cleared: decide leaves the response in the buffer
Cleared_Keeps(buf) == buf

\* decide()'s last step, self._buffer = None
Cleared(buf) == <<>>

\* BufferManager.decide: the returned (action, response) and the fields it leaves
decide(buf, history, new_user_input, relevance_score, topic_changed, t, merge) ==
  IF buf = <<>>
    THEN [action |-> "NONE", result |-> <<>>, buffer |-> buf, history |-> history]
    ELSE LET d == DecisionTree(buf[1], relevance_score, topic_changed, t, merge)
             b == Scored(buf[1], relevance_score, topic_changed, t)
             h == Append(history,
                         [action |-> d.action, reason |-> d.reason,
                          buffer_age_ms |-> age_ms(b, t),
                          relevance_score |-> relevance_score,
                          topic_changed |-> topic_changed, timestamp |-> t])
         IN [action |-> d.action, result |-> <<b>>, buffer |-> Cleared(buf),
             history |-> IF Len(h) > DECISIONS_CAP THEN LastN(h, DECISIONS_KEEP) ELSE h]

\* the record bmLast gets for a call
BmCall(op, text, action, result, had, age, score, topic) ==
  [op |-> op, text |-> text, action |-> action, result |-> result,
   had_buffer |-> had, age |-> age, relevance_score |-> score, topic_changed |-> topic]

\* a caller invokes BufferManager.store
Store(text, ctx) ==
  /\ stored < MaxStores
  /\ stored' = stored + 1
  /\ buffer' = store(buffer, text, ctx, now, stored + 1)
  /\ bmLast' = BmCall("store", text, "", <<>>, has_buffer(buffer), 0, NoScore, FALSE)
  /\ UNCHANGED <<now, pdVars, csmVars, acVars, tmVars, merge_enabled, decision_history,
               decided>>

\* a caller invokes BufferManager.decide
Decide(new_user_input, relevance_score, topic_changed) ==
  LET r == decide(buffer, decision_history, new_user_input, relevance_score,
                  topic_changed, now, merge_enabled)
  IN /\ has_buffer(buffer) => Len(decision_history) < MaxDecisions
     /\ buffer' = r.buffer
     /\ decision_history' = r.history
     /\ decided' = IF r.result = <<>> THEN decided ELSE Append(decided, r.result[1].id)
     /\ bmLast' = BmCall("decide", new_user_input, r.action, r.result,
                         has_buffer(buffer),
                         IF has_buffer(buffer) THEN age_ms(buffer[1], now) ELSE 0,
                         relevance_score, topic_changed)
     /\ UNCHANGED <<now, pdVars, csmVars, acVars, tmVars, merge_enabled, stored>>

\* a caller invokes BufferManager.clear
Clear ==
  /\ buffer' = <<>>
  /\ bmLast' = BmCall("clear", "", "", <<>>, has_buffer(buffer), 0, NoScore, FALSE)
  /\ UNCHANGED <<now, pdVars, csmVars, acVars, tmVars, merge_enabled, decision_history,
               stored, decided>>

\* BufferManager.__init__, in a process configured with BUFFER_MERGE_ENABLED = merge
BmInit(merge) ==
  /\ merge_enabled = merge
  /\ buffer = <<>>
  /\ decision_history = <<>>
  /\ stored = 0
  /\ decided = <<>>
  /\ bmLast = BmCall("init", "", "", <<>>, FALSE, 0, NoScore, FALSE)

(* ----------------------------- AudioBuffer ---------------------------- *)
\* the number of samples of the frame producer t passes to add_frame: no two
\* frames have the same length
FrameLen(t) == t

\* a frame of n samples; its samples carry the frame's identity
Frame(id, n) == [i \in 1..n |-> id]

\* np.concatenate over a list of frames
RECURSIVE concatenate(_)
concatenate(frames) ==
  IF frames = <<>> THEN <<>> ELSE frames[1] \o concatenate(Tail(frames))

\* mutant of add_frame: the new frame takes the place of the frames held
add_frame_KeepsLast(frames, frame) == <<frame>>

\* AudioBuffer.add_frame, inside the lock: the value of self._frames afterwards
add_frame(frames, frame) == Append(frames, frame)

\* AudioBuffer.get_audio, inside the lock: the array returned
get_audio(frames) == IF frames = <<>> THEN <<>> ELSE concatenate(frames)

\* mutant of clear: the frames stay
clear_Keeps(frames) == frames

\* AudioBuffer.clear, inside the lock: the value of self._frames afterwards
clear(frames) == <<>>

\* AudioBuffer.is_empty, inside the lock
is_empty(frames) == Len(frames) = 0

\* the threads that use one AudioBuffer: producers calling add_frame, and one
\* thread reading and clearing it as _process_chunk does at the end of a turn
Consumer == 0
Producers == 1..MaxProducers
Threads == {Consumer} \cup Producers
\* threading.Lock() when no thread holds it
Unlocked == -1

\* a thread outside every AudioBuffer method
Idle == [call |-> "idle", method |-> "idle", at |-> "idle"]
\* a thread in `method`, called as part of `call`: waiting for the lock at
\* "acquire", inside the with-block at "locked"
InMethod(call, method, at) == [call |-> call, method |-> method, at |-> at]

\* the frames producer t has passed to add_frame
CalledBy(t) == {f \in ab_called : f.id = t}

\* the calls the reading thread makes
ConsumerCalls == {"get_audio", "clear", "hand_off"}
\* the AudioBuffer method such a call starts with
FirstMethod(call) == IF call = "hand_off" THEN "is_empty" ELSE call

\* the record kept of a call of the reading thread: what it returned, the
\* frames whose add_frame had returned when it was called, and whether it was
\* quiet: no add_frame was in progress when it was called and none was called
\* before it returned
ConsumerOp(call, audio, returned0, quiet) ==
  [call |-> call, audio |-> audio, returned0 |-> returned0, quiet |-> quiet]

\* producer t calls add_frame with its frame
AddFrameCall(t) ==
  LET f == [id |-> t, n |-> FrameLen(t)]
  IN /\ ab_pc[t] = Idle
     /\ CalledBy(t) = {}
     /\ ab_pc' = [ab_pc EXCEPT ![t] = InMethod("add_frame", "add_frame", "acquire")]
     /\ ab_local' = [ab_local EXCEPT ![t] = f]
     /\ ab_called' = ab_called \cup {f}
     /\ UNCHANGED <<now, pdVars, csmVars, bmVars, tmVars, chunks, heard,
                    last_vad_confidence, vad_state, fcVars,
                    current_state, audio_frames, completed_turns, ab_lock, ab_returned,
                    ab_ops>>

\* the reading thread calls get_audio or clear, or starts the hand-over of
\* _process_chunk (is_empty, get_audio, put, clear)
ConsumerCall(call) ==
  /\ ab_pc[Consumer] = Idle
  /\ Len(ab_ops) < MaxConsumerCalls
  /\ ab_pc' = [ab_pc EXCEPT ![Consumer] = InMethod(call, FirstMethod(call), "acquire")]
  /\ ab_local' = [ab_local EXCEPT
                    ![Consumer] = ConsumerOp(call, <<>>, ab_returned,
                                             ab_called = ab_returned)]
  /\ UNCHANGED <<now, pdVars, csmVars, bmVars, tmVars, chunks, heard,
                 last_vad_confidence, vad_state, fcVars,
                 current_state, audio_frames, completed_turns, ab_lock, ab_called,
                 ab_returned, ab_ops>>

\* `with self._lock:` in any method: the thread takes the lock once it is free
Acquire(t) ==
  /\ ab_pc[t].at = "acquire"
  /\ ab_lock = Unlocked
  /\ ab_lock' = t
  /\ ab_pc' = [ab_pc EXCEPT ![t].at = "locked"]
  /\ UNCHANGED <<now, pdVars, csmVars, bmVars, tmVars, chunks, heard,
                 last_vad_confidence, vad_state, fcVars,
                 current_state, audio_frames, completed_turns, ab_local, ab_called,
                 ab_returned, ab_ops>>

\* the reading thread returns from its call
ConsumerReturns(audio) ==
  /\ ab_pc' = [ab_pc EXCEPT ![Consumer] = Idle]
  /\ ab_ops' = Append(ab_ops, [ab_local[Consumer] EXCEPT
                                 !.audio = audio,
                                 !.quiet = @ /\ ab_called = ab_local[Consumer].returned0])
  /\ ab_local' = ab_local

\* add_frame's with-block: the frame is appended, the lock released, the call
\* returns
AddFrameLocked(t) ==
  /\ ab_pc[t] = InMethod("add_frame", "add_frame", "locked")
  /\ ab_lock = t
  /\ audio_frames' = add_frame(audio_frames, Frame(ab_local[t].id, ab_local[t].n))
  /\ ab_lock' = Unlocked
  /\ ab_pc' = [ab_pc EXCEPT ![t] = Idle]
  /\ ab_returned' = ab_returned \cup {ab_local[t]}
  /\ UNCHANGED <<now, pdVars, csmVars, bmVars, tmVars, chunks, heard,
                 last_vad_confidence, vad_state, fcVars,
                 current_state, completed_turns, ab_local, ab_called, ab_ops>>

\* is_empty's with-block, in the hand-over: an empty buffer ends the
\* hand-over, otherwise get_audio is called next
IsEmptyLocked ==
  /\ ab_pc[Consumer] = InMethod("hand_off", "is_empty", "locked")
  /\ ab_lock = Consumer
  /\ ab_lock' = Unlocked
  /\ IF is_empty(audio_frames)
       THEN ConsumerReturns(<<>>)
       ELSE /\ ab_pc' = [ab_pc EXCEPT
                           ![Consumer] = InMethod("hand_off", "get_audio", "acquire")]
            /\ UNCHANGED <<ab_local, ab_ops>>
  /\ UNCHANGED <<now, pdVars, csmVars, bmVars, tmVars, chunks, heard,
                 last_vad_confidence, vad_state, fcVars,
                 current_state, audio_frames, completed_turns, ab_called, ab_returned>>

\* get_audio's with-block: the frames are concatenated and the lock released;
\* in the hand-over the audio is kept for the put that follows
GetAudioLocked ==
  /\ ab_pc[Consumer].method = "get_audio"
  /\ ab_pc[Consumer].at = "locked"
  /\ ab_lock = Consumer
  /\ ab_lock' = Unlocked
  /\ IF ab_pc[Consumer].call = "hand_off"
       THEN /\ ab_pc' = [ab_pc EXCEPT ![Consumer] = InMethod("hand_off", "put", "put")]
            /\ ab_local' = [ab_local EXCEPT ![Consumer].audio = get_audio(audio_frames)]
            /\ ab_ops' = ab_ops
       ELSE ConsumerReturns(get_audio(audio_frames))
  /\ UNCHANGED <<now, pdVars, csmVars, bmVars, tmVars, chunks, heard,
                 last_vad_confidence, vad_state, fcVars,
                 current_state, audio_frames, completed_turns, ab_called, ab_returned>>

\* the hand-over's self._completed_turns.put(completed_audio); clear is called
\* next
Put ==
  /\ ab_pc[Consumer] = InMethod("hand_off", "put", "put")
  /\ completed_turns' = Append(completed_turns, ab_local[Consumer].audio)
  /\ ab_pc' = [ab_pc EXCEPT ![Consumer] = InMethod("hand_off", "clear", "acquire")]
  /\ UNCHANGED <<now, pdVars, csmVars, bmVars, tmVars, chunks, heard,
                 last_vad_confidence, vad_state, fcVars,
                 current_state, audio_frames, ab_lock, ab_local, ab_called, ab_returned,
                 ab_ops>>

\* clear's with-block: the frames are dropped, the lock released, the call
\* (and the hand-over it ends) returns
ClearLocked ==
  /\ ab_pc[Consumer].method = "clear"
  /\ ab_pc[Consumer].at = "locked"
  /\ ab_lock = Consumer
  /\ audio_frames' = clear(audio_frames)
  /\ ab_lock' = Unlocked
  /\ ConsumerReturns(ab_local[Consumer].audio)
  /\ UNCHANGED <<now, pdVars, csmVars, bmVars, tmVars, chunks, heard,
                 last_vad_confidence, vad_state, fcVars,
                 current_state, completed_turns, ab_called, ab_returned>>

\* AudioBuffer.__init__, and the threads before their first call
AbInit ==
  /\ ab_lock = Unlocked
  /\ ab_pc = [t \in Threads |-> Idle]
  /\ ab_local = [t \in Threads |-> <<>>]
  /\ ab_called = {}
  /\ ab_returned = {}
  /\ ab_ops = <<>>

(* ---------------------------- AudioCapture ---------------------------- *)
\* config.VAD_THRESHOLD (0.5), in hundredths
VAD_THRESHOLD == 50
\* the speech probabilities the VAD model returns, in hundredths
Confidences == {10, 50}

\* VoiceActivityDetector.process_chunk: the result for a speech probability
vad_process_chunk(speech_prob) ==
  [is_speech |-> speech_prob >= VAD_THRESHOLD, confidence |-> speech_prob]

\* mutant of Accumulates: only confirmed speech is accumulated
Accumulates_SpeakingOnly(new_state) == new_state = "SPEAKING"

\* mutant of Accumulates: tentative speech is accumulated too
Accumulates_Tentative(new_state) ==
  new_state \in {"SPEECH_STARTED", "SPEAKING", "MAYBE_DONE"}

\* _process_chunk, step 3: the states in which the chunk is accumulated
Accumulates(new_state) == new_state \in {"SPEAKING", "MAYBE_DONE"}

\* AudioCapture._process_chunk for one chunk, the VAD model returning
\* speech_prob
RunChunk(speech_prob) ==
  LET chunk == chunks + 1
      vad_result == vad_process_chunk(speech_prob)
      prev_state == pd_state
      r == process(PdSelf, vad_result.is_speech, min_speech_chunks,
                   pause_threshold_chunks, now)
      new_state == r.state
      logged == Append(pdLog, PdLogEntry(vad_result.is_speech, PdSelf, r))
  IN /\ chunks < MaxChunks
     /\ chunks' = chunk
     /\ heard' = Append(heard, vad_result.is_speech)
     /\ last_vad_confidence' = vad_result.confidence
     /\ vad_state' = IF new_state = "TURN_COMPLETE" THEN 0 ELSE vad_state + 1
     /\ current_state' = new_state
     /\ IF Accumulates(new_state)
          THEN /\ audio_frames' = add_frame(audio_frames, Frame(chunk, 1))
               /\ completed_turns' = completed_turns
               /\ PdAssign(r)
               /\ pdLog' = logged
               /\ pdOp' = "process"
        ELSE IF new_state = "TURN_COMPLETE"
          THEN /\ IF ~is_empty(audio_frames)
                    THEN /\ completed_turns' = Append(completed_turns, get_audio(audio_frames))
                         /\ audio_frames' = clear(audio_frames)
                    ELSE UNCHANGED <<completed_turns, audio_frames>>
               /\ PdAssign(reset(r))
               /\ pdLog' = <<>>
               /\ pdOp' = "reset"
        ELSE IF new_state = "SILENCE" /\ prev_state = "SPEECH_STARTED"
          THEN /\ audio_frames' = clear(audio_frames)
               /\ completed_turns' = completed_turns
               /\ PdAssign(r)
               /\ pdLog' = logged
               /\ pdOp' = "process"
        ELSE /\ UNCHANGED <<audio_frames, completed_turns>>
             /\ PdAssign(r)
             /\ pdLog' = logged
             /\ pdOp' = "process"
     /\ UNCHANGED <<now, min_speech_chunks, pause_threshold_chunks, csmVars, bmVars,
                    tmVars, abVars>>

\* one iteration of the loop of process_audio_frame, for a chunk of some
\* frame: the call of _process_chunk
ProcessChunk(speech_prob) ==
  /\ RunChunk(speech_prob)
  /\ UNCHANGED fcVars

\* config.AUDIO_CHUNK_SAMPLES
AUDIO_CHUNK_SAMPLES == 512

\* the frame lengths tried: those next to a multiple of the chunk size
FrameLengths ==
  {n \in 0..MaxFrameSamples :
     n % AUDIO_CHUNK_SAMPLES \in {0, 1, AUDIO_CHUNK_SAMPLES - 1}}

\* audio_int16 for the k-th frame, of n samples: int16 values, all different
\* and none of them zero
FrameSamples(k, n) == [j \in 1..n |-> k * (MaxFrameSamples + 1) + j]

\* Python's a[i:j] for 0 <= i <= j
Slice(a, i, j) == SubSeq(a, i + 1, IF j < Len(a) THEN j ELSE Len(a))

\* mutant of pad: a short chunk is passed on as it is
pad_Nothing(chunk, k) == chunk

\* np.pad(chunk, (0, k)): k zeros after the chunk
pad(chunk, k) == chunk \o [x \in 1..k |-> 0]

\* process_audio_frame, lines 143-149: the chunks the loop passes to
\* _process_chunk, from offset i on
RECURSIVE frame_chunks(_, _, _)
frame_chunks(audio_int16, i, chunk_size) ==
  IF i >= Len(audio_int16)
    THEN <<>>
    ELSE LET chunk == Slice(audio_int16, i, i + chunk_size)
         IN <<IF Len(chunk) < chunk_size
                THEN pad(chunk, chunk_size - Len(chunk))
                ELSE chunk>>
            \o frame_chunks(audio_int16, i + chunk_size, chunk_size)

\* what a frame can change: the detector, the accumulator and the queue
IngestState ==
  [detector |-> PdSelf, frames |-> audio_frames, turns |-> completed_turns]

\* a process_audio_frame call that has begun in the current state
FrameCall(status, malformed) ==
  [status |-> status, malformed |-> malformed, before |-> IngestState]

\* the WebRTC callback calls process_audio_frame with a mono int16 frame of n
\* samples at 16 kHz, which the conversions of lines 121-139 leave as it is:
\* the frame is cut into chunks
ProcessAudioFrame(n) ==
  /\ pending = <<>>
  /\ Len(frames_in) < MaxFrames
  /\ frames_in' = Append(frames_in, n)
  /\ pending' = frame_chunks(FrameSamples(Len(frames_in) + 1, n), 0, AUDIO_CHUNK_SAMPLES)
  /\ frame_call' = FrameCall(IF pending' = <<>> THEN "returned" ELSE "running", FALSE)
  /\ UNCHANGED <<now, pdVars, csmVars, bmVars, tmVars, chunks, heard,
                 last_vad_confidence, vad_state, passed, acLast, current_state,
                 audio_frames, completed_turns, abVars>>

\* process_audio_frame, line 121: frame.to_ndarray() (or a conversion of lines
\* 124-139) raises for the frame; nothing catches the exception
MalformedFrame ==
  /\ pending = <<>>
  /\ frame_call' = FrameCall("raised", TRUE)
  /\ UNCHANGED <<now, pdVars, csmVars, bmVars, tmVars, chunks, heard,
                 last_vad_confidence, vad_state, frames_in, pending, passed, acLast,
                 current_state, audio_frames, completed_turns, abVars>>

\* _process_chunk, line 156: vad.process_chunk raises for the next chunk of
\* the frame; the exception leaves _process_chunk and process_audio_frame,
\* the chunks of the frame already processed stay processed and the rest of
\* the frame is not looked at
ClassificationFails ==
  /\ pending # <<>>
  /\ pending' = <<>>
  /\ frame_call' = [frame_call EXCEPT !.status = "raised", !.malformed = TRUE]
  /\ UNCHANGED <<now, pdVars, csmVars, bmVars, tmVars, chunks, heard,
                 last_vad_confidence, vad_state, frames_in, passed, acLast,
                 current_state, audio_frames, completed_turns, abVars>>

\* process_audio_frame, line 149: the next chunk of the frame goes through
\* _process_chunk
PassChunk(speech_prob) ==
  /\ pending # <<>>
  /\ pending' = Tail(pending)
  /\ passed' = Append(passed, Head(pending))
  /\ frames_in' = frames_in
  /\ frame_call' = [frame_call EXCEPT
                      !.status = IF pending' = <<>> THEN "returned" ELSE "running"]
  /\ acLast' = acLast
  /\ RunChunk(speech_prob)

\* mutant of get_turn_audio: the newest turn is returned first
get_turn_audio_Newest(q) ==
  IF q = <<>>
    THEN [audio |-> <<>>, queue |-> q]
    ELSE [audio |-> <<q[Len(q)]>>, queue |-> SubSeq(q, 1, Len(q) - 1)]

\* AudioCapture.get_turn_audio on queue q: get_nowait(), None (here <<>>) on
\* queue.Empty; the value returned and the queue afterwards
get_turn_audio(q) ==
  IF q = <<>>
    THEN [audio |-> <<>>, queue |-> q]
    ELSE [audio |-> <<Head(q)>>, queue |-> Tail(q)]

\* AudioCapture.has_completed_turn on queue q
has_completed_turn(q) == ~(Len(q) = 0)

\* the polling thread calls has_completed_turn
HasCompletedTurn ==
  /\ acLast' = [op |-> "has_completed_turn", has |-> has_completed_turn(completed_turns),
                audio |-> <<>>, queued |-> Len(completed_turns)]
  /\ UNCHANGED <<now, pdVars, csmVars, bmVars, tmVars, chunks, heard,
                 last_vad_confidence, vad_state, frames_in, pending, passed, frame_call,
                 current_state, audio_frames, completed_turns, abVars>>

\* the polling thread calls get_turn_audio
GetTurnAudio ==
  LET r == get_turn_audio(completed_turns)
  IN /\ completed_turns' = r.queue
     /\ taken' = taken \o r.audio
     /\ acLast' = [op |-> "get_turn_audio", has |-> r.audio # <<>>, audio |-> r.audio,
                   queued |-> Len(completed_turns)]
     /\ UNCHANGED <<now, pdVars, csmVars, bmVars, chunks, heard, last_vad_confidence,
                    vad_state, frames_in, pending, passed, frame_call, current_state,
                    audio_frames, abVars, llm, memory, last_user_text, pt_pc, tmLast>>

\* AudioCapture.__init__
AcInit ==
  /\ frames_in = <<>>
  /\ pending = <<>>
  /\ passed = <<>>
  /\ acLast = [op |-> "init", has |-> FALSE, audio |-> <<>>, queued |-> 0]
  /\ chunks = 0
  /\ heard = <<>>
  /\ last_vad_confidence = 0
  /\ vad_state = 0
  /\ current_state = "SILENCE"
  /\ audio_frames = <<>>
  /\ completed_turns = <<>>
  /\ frame_call = FrameCall("idle", FALSE)

(* ---------------------------- TurnManager ----------------------------- *)
\* config.CONVERSATION_HISTORY_MAX_TURNS
CONVERSATION_HISTORY_MAX_TURNS == 20

\* a collaborator call that raises instead of returning
Raise == "<raise>"
RaiseScore == -2
\* what the collaborators return: a transcript (already stripped), a relevance
\* in hundredths, a merged text, a generated text, whether synthesis succeeds
SttResults == {"", "u", Raise}
RelevanceResults == {29, 30, 60, RaiseScore}
MergeResults == {"", "m", Raise}
GenerateResults == {"", "g", Raise}
TtsResults == {"wav", Raise}

\* ConversationMemory.add_turn
add_turn(turns, role, content) ==
  LastN(Append(turns, [role |-> role, content |-> content]),
        CONVERSATION_HISTORY_MAX_TURNS)

\* the objects process_turn works on, as one record; out is what the call has
\* produced so far and out.status its position: "running", or how it ended
\* ("none": returned None, "result": returned the record, "raised": an
\* exception left it)
TmSelf ==
  [csm |-> CsmSelf, csmLast |-> csmLast,
   buffer |-> buffer, decision_history |-> decision_history, decided |-> decided,
   bmLast |-> bmLast, queue |-> completed_turns, memory |-> memory,
   last_user_text |-> last_user_text, taken |-> taken,
   out |-> [op |-> "process_turn", status |-> "running", audio_data |-> <<>>, user_text |-> "",
            ai_response |-> "", ai_audio_bytes |-> "", buffer_action |-> "NONE",
            calls |-> <<>>]]

Ended(T, status) == [T EXCEPT !.out.status = status]
Called(T, name) == [T EXCEPT !.out.calls = Append(@, name)]

\* self.state.<method>() for a method that is transition_to(target): the record
\* after the call, and whether it raised
TmTransition(T, op, target, t) ==
  LET r == transition_to(T.csm, target, t)
  IN [T EXCEPT !.csm = [state |-> r.state, enter |-> r.enter, history |-> r.history],
               !.csmLast = CsmCall(op, T.csm, target, r)]

\* mutant of TakeTurn: the call goes on when no turn is queued
TakeTurn_Unchecked(T) ==
  IF T.queue = <<>>
    THEN T
    ELSE LET audio_data == Head(T.queue)
             U == [T EXCEPT !.queue = Tail(@), !.taken = Append(@, audio_data),
                            !.out.audio_data = audio_data]
         IN IF Len(audio_data) = 0 THEN Ended(U, "none") ELSE U

\* process_turn, lines 85-91: take the next completed turn, if any
TakeTurn(T) ==
  IF T.queue = <<>>
    THEN Ended(T, "none")
    ELSE LET audio_data == Head(T.queue)
             U == [T EXCEPT !.queue = Tail(@), !.taken = Append(@, audio_data),
                            !.out.audio_data = audio_data]
         IN IF Len(audio_data) = 0 THEN Ended(U, "none") ELSE U

\* mutant of EnterProcessing: a rejected transition is not noticed
EnterProcessing_Unchecked(T, t) ==
  IF T.out.status # "running" THEN T
  ELSE Called(TmTransition(T, "start_processing", "PROCESSING", t), "on_state_change")

\* process_turn, lines 93-99: the transition to PROCESSING
EnterProcessing(T, t) ==
  IF T.out.status # "running" THEN T
  ELSE LET U == TmTransition(T, "start_processing", "PROCESSING", t)
       IN IF U.csmLast.ok THEN Called(U, "on_state_change") ELSE Ended(U, "none")

\* mutant of Transcribe: an empty transcript ends the call in PROCESSING
Transcribe_StaysProcessing(T, stt, t) ==
  IF T.out.status # "running" THEN T
  ELSE LET U == Called(T, "transcribe")
       IN IF stt = Raise THEN Ended(U, "raised")
          ELSE IF stt = "" THEN Ended(U, "none")
          ELSE Called([U EXCEPT !.last_user_text = stt, !.out.user_text = stt],
                      "on_transcription")

\* process_turn, lines 101-113: transcription
Transcribe(T, stt, t) ==
  IF T.out.status # "running" THEN T
  ELSE LET U == Called(T, "transcribe")
       IN IF stt = Raise THEN Ended(U, "raised")
          ELSE IF stt = ""
            THEN LET V == TmTransition(U, "back_to_listening", "LISTENING", t)
                 IN IF V.csmLast.ok
                      THEN Ended(Called(V, "on_state_change"), "none")
                      ELSE Ended(V, "raised")
          ELSE Called([U EXCEPT !.last_user_text = stt, !.out.user_text = stt],
                      "on_transcription")

\* mutant of TopicChanged: a relevance of exactly 0.3 is a topic change too
TopicChanged_AtThreshold(relevance) == relevance <= 30

\* process_turn, line 129: low relevance (below 0.3) is a topic change
TopicChanged(relevance) == relevance < 30

\* process_turn, lines 115-145: the buffered response, if one is held
ResolveBuffer(T, rel, mrg, t, merge) ==
  IF T.out.status # "running" \/ ~has_buffer(T.buffer) THEN T
  ELSE LET U == IF llm.classify_relevance THEN Called(T, "classify_relevance") ELSE T
           relevance == IF llm.classify_relevance THEN rel ELSE 0
           topic_changed == IF llm.classify_relevance THEN TopicChanged(relevance) ELSE FALSE
           d == decide(U.buffer, U.decision_history, U.out.user_text, relevance,
                       topic_changed, t, merge)
           V == [U EXCEPT !.buffer = d.buffer,
                          !.decision_history = d.history,
                          !.decided = Append(@, d.result[1].id),
                          !.bmLast = BmCall("decide", U.out.user_text, d.action, d.result,
                                            TRUE, age_ms(U.buffer[1], t), relevance,
                                            topic_changed),
                          !.out.buffer_action = d.action]
       IN IF llm.classify_relevance /\ rel = RaiseScore
            THEN Ended(U, "raised")
          ELSE IF d.action = "MERGE" /\ llm.merge_response
            THEN IF mrg = Raise
                   THEN Ended(Called(V, "merge_response"), "raised")
                   ELSE [Called(V, "merge_response") EXCEPT !.out.ai_response = mrg]
          ELSE IF d.action = "CONTINUE"
            THEN [V EXCEPT !.out.ai_response = d.result[1].text]
          ELSE V

\* process_turn, lines 147-156: a fresh response when none was resolved
Generate(T, gen) ==
  IF T.out.status # "running" THEN T
  ELSE IF T.out.ai_response = "" /\ llm.generate
    THEN LET U == Called([T EXCEPT !.memory = add_turn(@, "user", T.out.user_text)],
                         "generate")
         IN IF gen = Raise THEN Ended(U, "raised")
            ELSE [U EXCEPT !.out.ai_response = gen]
  ELSE T

\* process_turn, lines 158-163: the assistant turn is remembered
Remember(T) ==
  IF T.out.status # "running" THEN T
  ELSE IF T.out.ai_response # ""
    THEN Called([T EXCEPT !.memory = add_turn(@, "assistant", T.out.ai_response)],
                "on_ai_response")
  ELSE T

\* process_turn, lines 165-189: the delay, synthesis, the transition to
\* SPEAKING, and the result record
Synthesize(T, tts, t) ==
  IF T.out.status # "running" THEN T
  ELSE IF T.out.ai_response # ""
    THEN LET U == Called(T, "synthesize")
             V == TmTransition([U EXCEPT !.out.ai_audio_bytes = tts],
                               "start_speaking", "SPEAKING", t)
         IN IF tts = Raise THEN Ended(U, "raised")
            ELSE IF V.csmLast.ok THEN Ended(Called(V, "on_state_change"), "result")
            ELSE Ended(V, "result")
  ELSE Ended(T, "result")

\* process_turn from line 101 on: what follows the transition to PROCESSING
Pipeline(T, stt, rel, mrg, gen, tts, t, merge) ==
  Synthesize(
    Remember(
      Generate(
        ResolveBuffer(Transcribe(T, stt, t), rel, mrg, t, merge),
        gen)),
    tts, t)

\* TurnManager.process_turn, for the given collaborator results
process_turn(T, stt, rel, mrg, gen, tts, t, merge) ==
  Pipeline(EnterProcessing(TakeTurn(T), t), stt, rel, mrg, gen, tts, t, merge)

\* the objects become those of record T
TmAssign(T) ==
  /\ CsmAssign(T.csm)
  /\ csmLast' = T.csmLast
  /\ buffer' = T.buffer
  /\ decision_history' = T.decision_history
  /\ decided' = T.decided
  /\ bmLast' = T.bmLast
  /\ completed_turns' = T.queue
  /\ memory' = T.memory
  /\ last_user_text' = T.last_user_text
  /\ taken' = T.taken

\* the threads that call process_turn
Pollers == 1..MaxPollers

\* a thread that is not in process_turn, and one that is at line `at` of it
\* holding the turn audio it took
Outside == [at |-> "outside", audio |-> <<>>]
InProcessTurn(at, audio) == [at |-> at, audio |-> audio]

\* the record of a process_turn call of thread t that returns None here
ReturnsNone(t) ==
  [TmSelf.out EXCEPT !.status = "none", !.audio_data = pt_pc[t].audio]

\* thread t calls process_turn, line 86: has_completed_turn()
PtHasCompletedTurn(t) ==
  /\ pt_pc[t].at = "outside"
  /\ IF completed_turns = <<>>
       THEN /\ tmLast' = ReturnsNone(t)
            /\ pt_pc' = pt_pc
       ELSE /\ pt_pc' = [pt_pc EXCEPT ![t] = InProcessTurn("get_turn_audio", <<>>)]
            /\ tmLast' = tmLast
  /\ UNCHANGED <<now, pdVars, csmVars, bmVars, acVars, llm, memory, last_user_text,
                 taken>>

\* thread t at lines 89-91: get_turn_audio(), which is None when another
\* thread has emptied the queue since line 86
PtGetTurnAudio(t) ==
  /\ pt_pc[t].at = "get_turn_audio"
  /\ IF completed_turns = <<>>
       THEN /\ pt_pc' = [pt_pc EXCEPT ![t] = Outside]
            /\ tmLast' = ReturnsNone(t)
            /\ UNCHANGED <<completed_turns, taken>>
       ELSE /\ pt_pc' = [pt_pc EXCEPT
                           ![t] = InProcessTurn("start_processing", Head(completed_turns))]
            /\ completed_turns' = Tail(completed_turns)
            /\ taken' = Append(taken, Head(completed_turns))
            /\ tmLast' = tmLast
  /\ UNCHANGED <<now, pdVars, csmVars, bmVars, chunks, heard, last_vad_confidence,
                 vad_state, fcVars, current_state, audio_frames, abVars, llm, memory,
                 last_user_text>>

\* thread t at line 95, in transition_to at line 72: the target is tested
\* against the current state; a rejected target raises ValueError, which
\* process_turn turns into returning None (lines 97-99)
PtValidate(t) ==
  /\ pt_pc[t].at = "start_processing"
  /\ IF "PROCESSING" \in VALID_TRANSITIONS(conv_state)
       THEN /\ pt_pc' = [pt_pc EXCEPT ![t].at = "transition_to:78"]
            /\ UNCHANGED <<csmLast, tmLast>>
       ELSE /\ pt_pc' = [pt_pc EXCEPT ![t] = Outside]
            /\ csmLast' = CsmCall("start_processing", CsmSelf, "PROCESSING",
                                  transition_to(CsmSelf, "PROCESSING", now))
            /\ tmLast' = ReturnsNone(t)
  /\ UNCHANGED <<now, pdVars, conv_state, state_enter_time, transition_history, bmVars,
                 acVars, llm, memory, last_user_text, taken>>

\* thread t in transition_to at lines 78-92: the state, its entry time and
\* the history are assigned, and process_turn goes on to line 101
PtEnterState(t) ==
  LET r == enter_state(CsmSelf, "PROCESSING", now)
  IN /\ pt_pc[t].at = "transition_to:78"
     /\ Len(transition_history) < MaxTransitions
     /\ CsmAssign(r)
     /\ csmLast' = CsmCall("start_processing", CsmSelf, "PROCESSING", r)
     /\ pt_pc' = [pt_pc EXCEPT ![t].at = "transcribe"]
     /\ UNCHANGED <<now, pdVars, bmVars, acVars, llm, memory, last_user_text, taken,
                    tmLast>>

\* thread t runs process_turn from line 101 to its end, for the given
\* collaborator results
PtPipeline(t, stt, rel, mrg, gen, tts) ==
  LET T0 == [TmSelf EXCEPT !.out.audio_data = pt_pc[t].audio,
                           !.out.calls = <<"on_state_change">>]
      T == Pipeline(T0, stt, rel, mrg, gen, tts, now, merge_enabled)
  IN /\ pt_pc[t].at = "transcribe"
     /\ Len(T.csm.history) <= MaxTransitions
     /\ Len(T.decision_history) <= MaxDecisions
     /\ TmAssign(T)
     /\ tmLast' = T.out
     /\ pt_pc' = [pt_pc EXCEPT ![t] = Outside]
     /\ UNCHANGED <<now, pdVars, merge_enabled, stored, chunks, heard,
                    last_vad_confidence, vad_state, fcVars,
                    current_state, audio_frames, abVars, llm>>

\* the polling loop calls TurnManager.process_turn
ProcessTurn(stt, rel, mrg, gen, tts) ==
  LET T == process_turn(TmSelf, stt, rel, mrg, gen, tts, now, merge_enabled)
  IN /\ Len(T.csm.history) <= MaxTransitions
     /\ Len(T.decision_history) <= MaxDecisions
     /\ TmAssign(T)
     /\ tmLast' = T.out
     /\ UNCHANGED <<now, pdVars, merge_enabled, stored, chunks, heard,
                    last_vad_confidence, vad_state, fcVars,
                    current_state, audio_frames, abVars, llm, pt_pc>>

\* mutant of FinishSpeaking: the end of playback ends the session
FinishSpeaking_ToIdle ==
  LET T == TmTransition(TmSelf, "back_to_idle", "IDLE", now)
  IN /\ Len(T.csm.history) <= MaxTransitions
     /\ CsmAssign(T.csm)
     /\ csmLast' = T.csmLast
     /\ tmLast' = [TmSelf.out EXCEPT
                     !.op = "finish_speaking",
                     !.status = "none",
                     !.calls = IF T.csmLast.ok THEN <<"on_state_change">> ELSE <<>>]
     /\ UNCHANGED <<now, pdVars, bmVars, acVars, llm, memory, last_user_text, taken,
                    pt_pc>>

\* the UI calls TurnManager.finish_speaking when playback completes
FinishSpeaking ==
  LET T == TmTransition(TmSelf, "back_to_listening", "LISTENING", now)
  IN /\ Len(T.csm.history) <= MaxTransitions
     /\ CsmAssign(T.csm)
     /\ csmLast' = T.csmLast
     /\ tmLast' = [TmSelf.out EXCEPT
                     !.op = "finish_speaking",
                     !.status = "none",
                     !.calls = IF T.csmLast.ok THEN <<"on_state_change">> ELSE <<>>]
     /\ UNCHANGED <<now, pdVars, bmVars, acVars, llm, memory, last_user_text, taken,
                    pt_pc>>

\* TurnManager.__init__ with the given LLM callables injected, and
\* ConversationMemory.__init__ for a new session
TmInit(generate, classify_relevance, merge_response) ==
  /\ llm = [generate |-> generate, classify_relevance |-> classify_relevance,
            merge_response |-> merge_response]
  /\ memory = <<>>
  /\ last_user_text = ""
  /\ taken = <<>>
  /\ pt_pc = [t \in Pollers |-> Outside]
  /\ tmLast = [op |-> "init", status |-> "none", audio_data |-> <<>>, user_text |-> "",
               ai_response |-> "", ai_audio_bytes |-> "", buffer_action |-> "NONE",
               calls |-> <<>>]

\* config.BUFFER_MERGE_ENABLED as shipped
BUFFER_MERGE_ENABLED == TRUE

\* the objects as constructed, for a detector with thresholds m and p
InitWith(m, p, merge) ==
  /\ now = 0
  /\ PdInit(m, p)
  /\ CsmInit
  /\ BmInit(merge)
  /\ AcInit
  /\ AbInit
  /\ TmInit(TRUE, FALSE, FALSE)

\* any detector thresholds of the bounded range
InitPD ==
  \E m \in 0..MaxMinSpeech : \E p \in 0..MaxPause : InitWith(m, p, BUFFER_MERGE_ENABLED)

\* the shipped configuration, with the largest detector thresholds of the range
Init == InitWith(MaxMinSpeech, MaxPause, BUFFER_MERGE_ENABLED)

\* either setting of BUFFER_MERGE_ENABLED
InitBM == \E merge \in BOOLEAN : InitWith(MaxMinSpeech, MaxPause, merge)

\* a PauseDetector on its own, driven by any caller
NextPD ==
  \/ \E is_speech \in BOOLEAN : Process(is_speech)
  \/ Reset
  \/ Tick

SpecPD == InitPD /\ [][NextPD]_vars

\* a ConversationStateMachine on its own, driven by any caller
NextCSM ==
  \/ \E target \in ConversationState : TransitionTo(target)
  \/ StartListening
  \/ StartProcessing
  \/ StartSpeaking
  \/ StartBuffering
  \/ BackToListening
  \/ BackToIdle
  \/ \E target \in ConversationState : CanTransitionTo(target)
  \/ CsmReset
  \/ Tick

SpecCSM == Init /\ [][NextCSM]_vars

\* a ConversationStateMachine in a long session: the microphone is switched
\* on and off until the transition history has been trimmed more than once
NextHistory ==
  \/ MicOn
  \/ MicOff

SpecHistory == Init /\ [][NextHistory]_vars

\* a ConversationStateMachine in a long session with any caller: every
\* transition is tried while the history is short, the microphone is switched
\* on and off past the trim, and reset() comes at any point
NextSession ==
  \/ \E target \in ConversationState : TransitionTo(target)
  \/ MicOn
  \/ MicOff
  \/ CsmReset

SpecSession == Init /\ [][NextSession]_vars

\* a BufferManager on its own, driven by any caller
NextBM ==
  \/ \E text \in Texts : \E ctx \in Contexts : Store(text, ctx)
  \/ \E input \in UserTexts : \E score \in Scores : \E topic \in BOOLEAN :
       Decide(input, score, topic)
  \/ Clear
  \/ Tick

SpecBM == InitBM /\ [][NextBM]_vars

\* an AudioBuffer on its own, shared by producer threads and a reading thread
NextAB ==
  \/ \E t \in Producers : AddFrameCall(t)
  \/ \E call \in ConsumerCalls : ConsumerCall(call)
  \/ \E t \in Threads : Acquire(t)
  \/ \E t \in Producers : AddFrameLocked(t)
  \/ IsEmptyLocked
  \/ GetAudioLocked
  \/ Put
  \/ ClearLocked

SpecAB == Init /\ [][NextAB]_vars

\* the results a collaborator can give when it is called, one placeholder
\* when it is not
IfCalled(called, results, placeholder) == IF called THEN results ELSE {placeholder}

Running(T) == T.out.status = "running"

\* the polling loop's call of process_turn, for any results of the
\* collaborators the call reaches
Poll ==
  LET T2 == EnterProcessing(TakeTurn(TmSelf), now)
  IN \E stt \in IfCalled(Running(T2), SttResults, "") :
       LET T3 == Transcribe(T2, stt, now)
           buffered == Running(T3) /\ has_buffer(T3.buffer)
       IN \E rel \in IfCalled(buffered /\ llm.classify_relevance, RelevanceResults, 0) :
            \E mrg \in IfCalled(buffered /\ llm.merge_response, MergeResults, "") :
              LET T4 == ResolveBuffer(T3, rel, mrg, now, merge_enabled)
              IN \E gen \in IfCalled(Running(T4) /\ T4.out.ai_response = ""
                                       /\ llm.generate, GenerateResults, "") :
                   LET T5 == Remember(Generate(T4, gen))
                   IN \E tts \in IfCalled(Running(T5) /\ T5.out.ai_response # "",
                                          TtsResults, "wav") :
                        ProcessTurn(stt, rel, mrg, gen, tts)

\* the frame callback's call of _process_chunk, for any speech probability
Capture == \E speech_prob \in Confidences : ProcessChunk(speech_prob)

\* an AudioCapture on its own, fed by the frame callback, with a detector of
\* any thresholds
NextAC ==
  \/ Capture
  \/ Tick

SpecAC == InitPD /\ [][NextAC]_vars

\* the loop of process_audio_frame goes on, for a user who speaks without
\* hesitation: speech until the detector has confirmed it, then silence until
\* the turn completes
PassUtterance ==
  \E speech_prob \in Confidences :
    /\ vad_process_chunk(speech_prob).is_speech <=> pd_state \in {"SILENCE", "SPEECH_STARTED"}
    /\ PassChunk(speech_prob)

\* an AudioCapture fed whole frames by the WebRTC callback
NextFrames ==
  \/ \E n \in FrameLengths : ProcessAudioFrame(n)
  \/ PassUtterance

SpecFrames == Init /\ [][NextFrames]_vars

\* an AudioCapture fed frames of which some are malformed: a frame whose
\* conversion raises, a chunk for which the VAD raises
NextIngest ==
  \/ \E n \in FrameLengths : ProcessAudioFrame(n)
  \/ PassUtterance
  \/ MalformedFrame
  \/ ClassificationFails

SpecIngest == Init /\ [][NextIngest]_vars

\* the completed-turns queue between its two threads: the frame callback
\* runs _process_chunk, the polling thread asks for turns, in any order
NextQueue ==
  \/ Capture
  \/ HasCompletedTurn
  \/ GetTurnAudio

SpecQueue == InitPD /\ [][NextQueue]_vars

\* the pipeline as pages/interview.py assembles it: the WebRTC callback feeds
\* AudioCapture, the page's refresh loop polls process_turn, and nothing else
\* touches the state machine, the buffer or the memory
NextInterview ==
  \/ Capture
  \/ Poll
  \/ Tick

SpecInterview == Init /\ [][NextInterview]_vars

\* the frame callback's call of _process_chunk for a user who speaks without
\* hesitation: speech until the detector has confirmed it, then silence until
\* the turn completes
Utterance ==
  \E speech_prob \in Confidences :
    /\ vad_process_chunk(speech_prob).is_speech <=> pd_state \in {"SILENCE", "SPEECH_STARTED"}
    /\ ProcessChunk(speech_prob)

\* a TurnManager with all three LLM callables injected, over a detector with
\* thresholds of two chunks, under either setting of BUFFER_MERGE_ENABLED
InitTM ==
  /\ now = 0
  /\ PdInit(2, 2)
  /\ CsmInit
  /\ \E merge \in BOOLEAN : BmInit(merge)
  /\ AcInit
  /\ AbInit
  /\ TmInit(TRUE, TRUE, TRUE)

\* the TurnManager polled while turns arrive, the UI starts listening,
\* reports the end of playback or an interruption of it, and a response is
\* put in the buffer; all within one clock reading, so no buffered response
\* expires
NextTM ==
  \/ Utterance
  \/ Poll
  \/ FinishSpeaking
  \/ StartListening
  \/ StartBuffering
  \/ \E text \in Texts : \E ctx \in Contexts : Store(text, ctx)

SpecTM == InitTM /\ [][NextTM]_vars

\* thread t runs the rest of process_turn, for any results of the
\* collaborators it reaches
PtRun(t) ==
  LET T0 == [TmSelf EXCEPT !.out.audio_data = pt_pc[t].audio,
                           !.out.calls = <<"on_state_change">>]
  IN \E stt \in SttResults :
       LET T3 == Transcribe(T0, stt, now)
           buffered == Running(T3) /\ has_buffer(T3.buffer)
       IN \E rel \in IfCalled(buffered /\ llm.classify_relevance, RelevanceResults, 0) :
            \E mrg \in IfCalled(buffered /\ llm.merge_response, MergeResults, "") :
              LET T4 == ResolveBuffer(T3, rel, mrg, now, merge_enabled)
              IN \E gen \in IfCalled(Running(T4) /\ T4.out.ai_response = ""
                                       /\ llm.generate, GenerateResults, "") :
                   LET T5 == Remember(Generate(T4, gen))
                   IN \E tts \in IfCalled(Running(T5) /\ T5.out.ai_response # "",
                                          TtsResults, "wav") :
                        PtPipeline(t, stt, rel, mrg, gen, tts)

\* process_turn called from MaxPollers threads on the same TurnManager while
\* turns arrive and the UI starts listening and reports the end of playback
NextPT ==
  \/ Utterance
  \/ StartListening
  \/ FinishSpeaking
  \/ \E t \in Pollers : PtHasCompletedTurn(t)
  \/ \E t \in Pollers : PtGetTurnAudio(t)
  \/ \E t \in Pollers : PtValidate(t)
  \/ \E t \in Pollers : PtEnterState(t)
  \/ \E t \in Pollers : PtRun(t)

SpecPT == InitTM /\ [][NextPT]_vars

\* the pipeline under a session driver that starts listening and tells the
\* orchestrator when playback has finished
Next ==
  \/ Capture
  \/ Poll
  \/ FinishSpeaking
  \/ StartListening
  \/ Tick

Spec == Init /\ [][Next]_vars

(* ===================== properties of PauseDetector ==================== *)
\* chunks a..b of the current period exist and were all speech / all silence
AllSpeech(a, b) == b <= Len(pdLog) /\ \A j \in a..b : pdLog[j].in
AllSilence(a, b) == b <= Len(pdLog) /\ \A j \in a..b : ~pdLog[j].in

\* since the last reset there was a run of at least k consecutive speech chunks
HasSpeechRun(k) == \E i \in 1..Len(pdLog) : i >= k /\ AllSpeech(i - k + 1, i)

\* on_turn_complete invocations since the last reset
TurnCompleteFired == Cardinality({i \in 1..Len(pdLog) : pdLog[i].fire_turn})

\* C1: with min_speech_chunks >= 2, the detector is in TURN_COMPLETE, or has
\* fired on_turn_complete, only if a run of at least min_speech_chunks
\* consecutive speech chunks was fed since the last reset.
C1_NoTurnWithoutSpeechRun ==
  min_speech_chunks >= 2 =>
    ((pd_state = "TURN_COMPLETE" \/ TurnCompleteFired > 0)
       => HasSpeechRun(min_speech_chunks))

C1_Witness ==
  /\ min_speech_chunks >= 2
  /\ pd_state = "TURN_COMPLETE"
  /\ TurnCompleteFired = 1
  /\ \E i \in 1..Len(pdLog) : ~pdLog[i].in /\ pdLog[i].prev = "SPEECH_STARTED"

\* m speech chunks then p or more silence chunks, fed to a fresh detector, reach
\* TURN_COMPLETE on exactly the p-th silence chunk and report one completion,
\* whatever is fed afterwards
TurnOnPthSilence(m, p) ==
  /\ (AllSpeech(1, m) /\ AllSilence(m + 1, m + p)) =>
       /\ pd_state = "TURN_COMPLETE"
       /\ pdLog[m + p].fire_turn
       /\ TurnCompleteFired = 1
       /\ \A j \in 1..(m + p - 1) : pdLog[j].state # "TURN_COMPLETE"
  /\ \A k \in 0..(p - 1) :
       (Len(pdLog) = m + k /\ AllSpeech(1, m) /\ AllSilence(m + 1, m + k))
         => pd_state # "TURN_COMPLETE" /\ TurnCompleteFired = 0

\* C2 as stated, for every pair of thresholds of at least one chunk
C2_AnyThresholds ==
  (min_speech_chunks >= 1 /\ pause_threshold_chunks >= 1)
    => TurnOnPthSilence(min_speech_chunks, pause_threshold_chunks)

\* C2 (amended): for min_speech_chunks = m >= 2 and pause_threshold_chunks =
\* p >= 2, m speech chunks followed by p or more silence chunks reach
\* TURN_COMPLETE on exactly the p-th silence chunk, and on_turn_complete fires
\* exactly once however many further chunks are fed before reset().
C2_TurnOnPthSilence ==
  (min_speech_chunks >= 2 /\ pause_threshold_chunks >= 2)
    => TurnOnPthSilence(min_speech_chunks, pause_threshold_chunks)

C2_Witness ==
  /\ min_speech_chunks >= 2
  /\ pause_threshold_chunks >= 2
  /\ AllSpeech(1, min_speech_chunks)
  /\ AllSilence(min_speech_chunks + 1, min_speech_chunks + pause_threshold_chunks)
  /\ Len(pdLog) > min_speech_chunks + pause_threshold_chunks
  /\ pdLog[Len(pdLog)].in

\* chunk i left the detector in SPEAKING, chunks i+1..i+s were silence with
\* 1 <= s < pause_threshold_chunks, and chunk i+s+1 was speech
PausedAndResumed(i, s) ==
  /\ pdLog[i].state = "SPEAKING"
  /\ s >= 1 /\ s < pause_threshold_chunks
  /\ i + s + 1 <= Len(pdLog)
  /\ AllSilence(i + 1, i + s)
  /\ pdLog[i + s + 1].in

\* C3: a pause of s < pause_threshold_chunks silence chunks after confirmed
\* speech, followed by a speech chunk, leaves the detector in SPEAKING with the
\* silence counter 0 and no TURN_COMPLETE in between; a later pause completes
\* the turn only once it has lasted pause_threshold_chunks chunks again.
C3_ResumeAfterShortPause ==
  \A i \in 1..Len(pdLog) : \A s \in 1..Len(pdLog) :
    PausedAndResumed(i, s) =>
      /\ \A j \in (i + 1)..(i + s) :
           pdLog[j].state = "MAYBE_DONE" /\ ~pdLog[j].fire_turn
      /\ pdLog[i + s + 1].state = "SPEAKING"
      /\ pdLog[i + s + 1].silence = 0
      /\ ~pdLog[i + s + 1].fire_turn
      /\ \A t \in 1..Len(pdLog) :
           AllSilence(i + s + 2, i + s + 1 + t) =>
             (pdLog[i + s + 1 + t].state = "TURN_COMPLETE"
                <=> t >= pause_threshold_chunks)

C3_Witness ==
  \E i \in 1..Len(pdLog) : \E s \in 1..Len(pdLog) :
    /\ PausedAndResumed(i, s)
    /\ AllSilence(i + s + 2, i + s + 1 + pause_threshold_chunks)
    /\ Len(pdLog) = i + s + 1 + pause_threshold_chunks
    /\ pd_state = "TURN_COMPLETE"

\* chunk i found the detector in SILENCE, chunks i..i+k-1 were speech with
\* 1 <= k < min_speech_chunks, and chunk i+k was silence
NoiseBurst(i, k) ==
  /\ pdLog[i].prev = "SILENCE"
  /\ k >= 1 /\ k < min_speech_chunks
  /\ i + k <= Len(pdLog)
  /\ AllSpeech(i, i + k - 1)
  /\ ~pdLog[i + k].in

\* C4: a burst of k < min_speech_chunks speech chunks from SILENCE, followed by
\* a silence chunk, ends in SILENCE with the speech counter 0, never passes
\* through SPEAKING and fires no on_speech_start; the speech run after it is
\* promoted to SPEAKING only on its min_speech_chunks-th chunk.
C4_Debounce ==
  \A i \in 1..Len(pdLog) : \A k \in 1..Len(pdLog) :
    NoiseBurst(i, k) =>
      /\ pdLog[i + k].state = "SILENCE"
      /\ pdLog[i + k].speech = 0
      /\ \A j \in i..(i + k - 1) : pdLog[j].state = "SPEECH_STARTED"
      /\ \A j \in i..(i + k) : ~pdLog[j].fire_start
      /\ \A r \in 1..Len(pdLog) :
           AllSpeech(i + k + 1, i + k + r) =>
             /\ pdLog[i + k + r].state =
                  (IF r >= min_speech_chunks THEN "SPEAKING" ELSE "SPEECH_STARTED")
             /\ pdLog[i + k + r].fire_start <=> r = min_speech_chunks

C4_Witness ==
  \E i \in 1..Len(pdLog) : \E k \in 1..Len(pdLog) :
    /\ NoiseBurst(i, k)
    /\ k >= 2
    /\ AllSpeech(i + k + 1, i + k + min_speech_chunks)
    /\ Len(pdLog) = i + k + min_speech_chunks
    /\ pd_state = "SPEAKING"

\* C5: once a chunk has left the detector in TURN_COMPLETE, every further
\* process() call leaves the state, both counters and the start time as they
\* were and fires no callback; after reset(), from any state, the detector is
\* in SILENCE with both counters 0 and no speech start time.
C5_TurnCompleteAbsorbing ==
  /\ \A i \in 1..(Len(pdLog) - 1) :
       pdLog[i].state = "TURN_COMPLETE" =>
         /\ pdLog[i + 1].state = "TURN_COMPLETE"
         /\ pdLog[i + 1].speech = pdLog[i].speech
         /\ pdLog[i + 1].silence = pdLog[i].silence
         /\ pdLog[i + 1].start = pdLog[i].start
         /\ ~pdLog[i + 1].fire_start
         /\ ~pdLog[i + 1].fire_turn
  /\ pdOp = "reset" =>
       /\ pd_state = "SILENCE"
       /\ speech_chunk_count = 0
       /\ silence_chunk_count = 0
       /\ speech_start_time = NoTime

C5_Witness ==
  /\ Len(pdLog) >= 3
  /\ pdLog[Len(pdLog) - 2].state = "TURN_COMPLETE"
  /\ pdLog[Len(pdLog) - 1].in
  /\ ~pdLog[Len(pdLog)].in

\* process() calls of the current period that fired on_speech_start
SpeechStartFired == {i \in 1..Len(pdLog) : pdLog[i].fire_start}

\* process() calls of the current period that fired on_turn_complete
TurnCompleteFiredAt == {i \in 1..Len(pdLog) : pdLog[i].fire_turn}

\* C35: between two reset() calls the detector fires on_speech_start at most
\* once and on_turn_complete at most once; on_speech_start fires only on the
\* promotion from SPEECH_STARTED to SPEAKING, never when speech resumes from
\* MAYBE_DONE; on_turn_complete fires only after on_speech_start has fired
\* earlier in the same period.
C35_CallbacksOncePerPeriod ==
  /\ Cardinality(SpeechStartFired) <= 1
  /\ Cardinality(TurnCompleteFiredAt) <= 1
  /\ \A i \in 1..Len(pdLog) :
       pdLog[i].fire_start <=>
         (pdLog[i].prev = "SPEECH_STARTED" /\ pdLog[i].state = "SPEAKING")
  /\ \A i \in 1..Len(pdLog) :
       (pdLog[i].prev = "MAYBE_DONE" /\ pdLog[i].state = "SPEAKING")
         => ~pdLog[i].fire_start
  /\ \A i \in TurnCompleteFiredAt : \E j \in SpeechStartFired : j < i

\* a period with a pause, resumed speech and then a completed turn
C35_Witness ==
  /\ Cardinality(SpeechStartFired) = 1
  /\ Cardinality(TurnCompleteFiredAt) = 1
  /\ \E i \in 1..Len(pdLog) :
       pdLog[i].prev = "MAYBE_DONE" /\ pdLog[i].state = "SPEAKING"
  /\ Len(pdLog) > CHOOSE i \in TurnCompleteFiredAt : TRUE

\* process() call i of the current period is the promotion to SPEAKING
Promoted(i) ==
  pdLog[i].state = "SPEAKING" /\ pdLog[i].prev \notin {"SPEAKING", "MAYBE_DONE"}

\* process() call i of the current period is the one that completes the turn
Completed(i) ==
  pdLog[i].state = "TURN_COMPLETE" /\ pdLog[i].prev # "TURN_COMPLETE"

\* C38: whatever the thresholds, 0 and 1 included, the promotion to SPEAKING
\* happens on the second or a later chunk of a run of speech chunks and
\* TURN_COMPLETE is reached on the second or a later chunk of a run of silence
\* chunks that follows speech.
C38_PromotionFromSecondChunk ==
  \A i \in 1..Len(pdLog) :
    /\ Promoted(i) => (i >= 2 /\ AllSpeech(i - 1, i))
    /\ Completed(i) =>
         (i >= 2 /\ AllSilence(i - 1, i) /\ \E j \in 1..(i - 2) : pdLog[j].in)

\* thresholds below two chunks: promoted on the second speech chunk, completed
\* on the second silence chunk
C38_Witness ==
  /\ min_speech_chunks <= 1
  /\ pause_threshold_chunks <= 1
  /\ Len(pdLog) = 4
  /\ Promoted(2)
  /\ Completed(4)

\* thresholds of zero chunks
C38_WitnessZero ==
  /\ min_speech_chunks = 0
  /\ pause_threshold_chunks = 0
  /\ Len(pdLog) = 4
  /\ Promoted(2)
  /\ Completed(4)

\* C39: with min_speech_chunks >= 2 and pause_threshold_chunks >= 2, in every
\* state: SILENCE has both counters 0; SPEECH_STARTED has 1 <= speech count <
\* min_speech_chunks; SPEAKING has silence count 0; MAYBE_DONE has 1 <= silence
\* count < pause_threshold_chunks; TURN_COMPLETE has silence count =
\* pause_threshold_chunks; the speech start time is set exactly in SPEAKING,
\* MAYBE_DONE and TURN_COMPLETE, and speech_duration_ms is 0 in the other states.
C39_CounterInvariants ==
  (min_speech_chunks >= 2 /\ pause_threshold_chunks >= 2) =>
    /\ pd_state = "SILENCE" => (speech_chunk_count = 0 /\ silence_chunk_count = 0)
    /\ pd_state = "SPEECH_STARTED" =>
         (1 <= speech_chunk_count /\ speech_chunk_count < min_speech_chunks)
    /\ pd_state = "SPEAKING" => silence_chunk_count = 0
    /\ pd_state = "MAYBE_DONE" =>
         (1 <= silence_chunk_count /\ silence_chunk_count < pause_threshold_chunks)
    /\ pd_state = "TURN_COMPLETE" => silence_chunk_count = pause_threshold_chunks
    /\ (speech_start_time # NoTime)
         <=> (pd_state \in {"SPEAKING", "MAYBE_DONE", "TURN_COMPLETE"})
    /\ pd_state \in {"SILENCE", "SPEECH_STARTED"} => speech_duration_ms(PdSelf, now) = 0

\* a completed turn some time after the promotion
C39_Witness ==
  /\ min_speech_chunks >= 2
  /\ pause_threshold_chunks >= 2
  /\ pd_state = "TURN_COMPLETE"
  /\ silence_chunk_count = pause_threshold_chunks
  /\ speech_duration_ms(PdSelf, now) > 0

\* back in SILENCE by reset() after a completed turn
C39_WitnessReset ==
  /\ min_speech_chunks >= 2
  /\ pause_threshold_chunks >= 2
  /\ pdOp = "reset"
  /\ now > 0
  /\ speech_duration_ms(PdSelf, now) = 0

(* ================ properties of ConversationStateMachine ============== *)
\* the calls that are a transition_to
TransitionOps ==
  {"transition_to", "start_listening", "start_processing", "start_speaking",
   "start_buffering", "back_to_listening", "back_to_idle"}

\* the transitions the specification allows
AllowedPairs ==
  {<<"IDLE", "LISTENING">>,
   <<"LISTENING", "PROCESSING">>, <<"LISTENING", "IDLE">>,
   <<"PROCESSING", "SPEAKING">>, <<"PROCESSING", "LISTENING">>,
   <<"SPEAKING", "LISTENING">>, <<"SPEAKING", "BUFFERING">>, <<"SPEAKING", "IDLE">>,
   <<"BUFFERING", "PROCESSING">>, <<"BUFFERING", "LISTENING">>}

\* the target each convenience method asks for
MethodTarget(op) ==
  CASE op = "start_listening"   -> "LISTENING"
    [] op = "start_processing"  -> "PROCESSING"
    [] op = "start_speaking"    -> "SPEAKING"
    [] op = "start_buffering"   -> "BUFFERING"
    [] op = "back_to_listening" -> "LISTENING"
    [] op = "back_to_idle"      -> "IDLE"

\* C7: a transition_to(target), made directly or through a convenience method,
\* succeeds exactly when (current, target) is one of the ten allowed pairs;
\* when it succeeds the state is target, when it fails the state is as before;
\* no self-transition is accepted.
C7_OnlyAllowedTransitions ==
  csmLast.op \in TransitionOps =>
    /\ csmLast.ok <=> <<csmLast.from, csmLast.target>> \in AllowedPairs
    /\ csmLast.ok => conv_state = csmLast.target /\ csmLast.from # csmLast.target
    /\ ~csmLast.ok => conv_state = csmLast.from
    /\ csmLast.op # "transition_to" => csmLast.target = MethodTarget(csmLast.op)

C7_Witness ==
  /\ csmLast.op = "start_buffering"
  /\ csmLast.ok
  /\ csmLast.from = "SPEAKING"
  /\ conv_state = "BUFFERING"

\* C8: a transition_to whose target is not allowed from the current state
\* raises an error naming the (from, to) pair and leaves the state, the
\* state-entry timestamp and the transition history as they were.
C8_RejectedChangesNothing ==
  [][(csmLast'.op \in TransitionOps /\ ~csmLast'.ok) =>
       /\ conv_state' = conv_state
       /\ state_enter_time' = state_enter_time
       /\ transition_history' = transition_history
       /\ csmLast'.error = <<conv_state, csmLast'.target>>]_vars

C8_Witness ==
  /\ csmLast.op = "transition_to"
  /\ ~csmLast.ok
  /\ csmLast.error = <<"PROCESSING", "IDLE">>
  /\ now > state_enter_time
  /\ Len(transition_history) = 2

\* the step is a successful transition_to
Transitioned ==
  /\ csmLast'.op \in TransitionOps
  /\ csmLast'.ok
  /\ conv_state' # conv_state

\* the last k elements of h
Suffix(h, k) == [i \in 1..k |-> h[Len(h) - k + i]]

\* C27: every successful transition_to appends one (from, to, timestamp)
\* entry to the transition history; the history never holds more than 100
\* entries, and what it holds is always the most recent transitions in their
\* order: the entries before the step, the oldest of them dropped when the
\* cap is exceeded, followed by the new entry.
C27_HistoryBounded ==
  [][/\ Len(transition_history') <= 100
     /\ Transitioned =>
          LET h == Append(transition_history,
                          [from |-> conv_state, to |-> conv_state', timestamp |-> now])
              kept == Len(transition_history')
          IN /\ 1 <= kept
             /\ kept <= Len(h)
             /\ transition_history' = Suffix(h, kept)
             /\ Len(h) <= 100 => kept = Len(h)
     /\ ~Transitioned /\ csmLast'.op # "reset" =>
          transition_history' = transition_history]_vars

C27_Witness ==
  /\ csmLast.op = "start_listening"
  /\ csmLast.ok
  /\ conv_state = "LISTENING"
  /\ Len(transition_history) = 50
  /\ transition_history[1] = [from |-> "LISTENING", to |-> "IDLE", timestamp |-> 0]
  /\ transition_history[50] = [from |-> "IDLE", to |-> "LISTENING", timestamp |-> 0]

\* the step is a call of reset
WasReset ==
  /\ csmLast'.op = "reset"
  /\ csmLast' # csmLast \/ state_enter_time' # state_enter_time

\* C28: reset() succeeds from every state, PROCESSING and BUFFERING (from
\* which IDLE is not an allowed target) included, and leaves the state IDLE
\* with the state-entry time set to the time of the call.
C28_ResetFromAnywhere ==
  [][WasReset =>
       /\ csmLast'.ok
       /\ csmLast'.from = conv_state
       /\ conv_state' = "IDLE"
       /\ state_enter_time' = now
       /\ state_duration_ms(CsmSelf', now') = 0]_vars

C28_Witness ==
  /\ csmLast.op = "reset"
  /\ csmLast.from = "PROCESSING"
  /\ conv_state = "IDLE"
  /\ state_enter_time = now
  /\ now > 0

C28_WitnessBuffering ==
  /\ csmLast.op = "reset"
  /\ csmLast.from = "BUFFERING"
  /\ conv_state = "IDLE"
  /\ state_enter_time = now

\* C29: from IDLE, transition_to(PROCESSING) is rejected and
\* transition_to(LISTENING) succeeds. The state-entry timestamp is set by a
\* successful transition and by reset, and by nothing else, so that between
\* two of them state_duration_ms never decreases: neither a rejected
\* transition_to nor a can_transition_to query restarts it.
C29_EntryTimeOnlyByTransition ==
  [][/\ (csmLast' # csmLast /\ csmLast'.op \in TransitionOps /\ conv_state = "IDLE") =>
          /\ csmLast'.target = "PROCESSING" => ~csmLast'.ok /\ conv_state' = "IDLE"
          /\ csmLast'.target = "LISTENING" => csmLast'.ok /\ conv_state' = "LISTENING"
     /\ Transitioned \/ WasReset => state_enter_time' = now
     /\ ~(Transitioned \/ WasReset) =>
          /\ state_enter_time' = state_enter_time
          /\ state_duration_ms(CsmSelf', now') >= state_duration_ms(CsmSelf, now)]_vars

C29_Witness ==
  /\ csmLast.op = "transition_to"
  /\ csmLast.from = "IDLE"
  /\ csmLast.target = "PROCESSING"
  /\ ~csmLast.ok
  /\ conv_state = "IDLE"
  /\ state_duration_ms(CsmSelf, now) = 2 * TickMs

C29_WitnessListening ==
  /\ csmLast.op = "can_transition_to"
  /\ csmLast.from = "LISTENING"
  /\ transition_history = <<[from |-> "IDLE", to |-> "LISTENING", timestamp |-> TickMs]>>
  /\ state_duration_ms(CsmSelf, now) = TickMs

\* C37: after any sequence of transition_to and reset calls every history
\* entry is one of the allowed pairs, each entry's "to" is the next entry's
\* "from" (also in what is kept after a trim), the last entry's "to" is the
\* current state when the history is not empty, and after reset the history
\* is empty and the state is IDLE.
C37_HistoryConsistent ==
  LET h == transition_history
  IN /\ \A i \in 1..Len(h) : <<h[i].from, h[i].to>> \in AllowedPairs
     /\ \A i \in 1..(Len(h) - 1) : h[i].to = h[i + 1].from
     /\ h # <<>> => h[Len(h)].to = conv_state
     /\ csmLast.op = "reset" => (h = <<>> /\ conv_state = "IDLE")

\* a history that was trimmed and has grown again since: its oldest entry
\* does not start in the initial state
C37_Witness ==
  /\ Len(transition_history) > HISTORY_KEEP
  /\ transition_history[1].from # "IDLE"
  /\ transition_history[Len(transition_history)].to = conv_state

\* a reset made outside IDLE
C37_WitnessReset ==
  /\ csmLast.op = "reset"
  /\ csmLast.from = "SPEAKING"
  /\ transition_history = <<>>

(* ===================== properties of BufferManager ==================== *)
\* the decision table of the specification
TableAction(had, age, topic, score, merge) ==
  IF ~had THEN "NONE"
  ELSE IF age > 10000 THEN "DROP"
  ELSE IF topic THEN "DROP"
  ELSE IF score = NoScore THEN "DROP"
  ELSE IF score >= 60 THEN (IF merge THEN "MERGE" ELSE "CONTINUE")
  ELSE "DROP"

\* C9: decide returns the action of the decision table, its rules taken in
\* priority order, for every buffer age, relevance score, topic_changed flag
\* and merge-enabled flag: an expired buffer is dropped whatever its relevance
\* (0.8 with merging enabled: Merge when fresh, Drop when expired) and a score
\* equal to the threshold counts as relevant.
C9_DecisionTable ==
  bmLast.op = "decide" =>
    /\ bmLast.action =
         TableAction(bmLast.had_buffer, bmLast.age, bmLast.topic_changed,
                     bmLast.relevance_score, merge_enabled)
    /\ (bmLast.had_buffer /\ bmLast.relevance_score = 80 /\ merge_enabled
          /\ ~bmLast.topic_changed) =>
         bmLast.action = (IF bmLast.age > 10000 THEN "DROP" ELSE "MERGE")
    /\ (bmLast.had_buffer /\ bmLast.relevance_score = 60 /\ bmLast.age <= 10000
          /\ ~bmLast.topic_changed) =>
         bmLast.action \in {"MERGE", "CONTINUE"}

C9_Witness ==
  /\ bmLast.op = "decide"
  /\ bmLast.had_buffer
  /\ bmLast.relevance_score = 80
  /\ bmLast.age = 10000
  /\ ~merge_enabled
  /\ bmLast.action = "CONTINUE"

C9_WitnessExpired ==
  /\ bmLast.op = "decide"
  /\ bmLast.had_buffer
  /\ bmLast.relevance_score = 80
  /\ bmLast.age > 10000
  /\ merge_enabled
  /\ bmLast.action = "DROP"

\* C10: at most one BufferedResponse is held; after store the held response is
\* the new one, with the text stored; after decide, whatever it returned, and
\* after clear, none is held; no stored response is returned by two decisions.
C10_SingleUseBuffer ==
  /\ Len(buffer) <= 1
  /\ bmLast.op = "store" =>
       /\ has_buffer(buffer)
       /\ buffer[1].text = bmLast.text
       /\ buffer[1].id = stored
  /\ bmLast.op \in {"decide", "clear"} => ~has_buffer(buffer)
  /\ bmLast.op = "decide" => (bmLast.result # <<>> <=> bmLast.had_buffer)
  /\ \A i \in 1..Len(decided) : \A j \in 1..Len(decided) :
       decided[i] = decided[j] => i = j

C10_Witness ==
  /\ bmLast.op = "decide"
  /\ bmLast.action = "NONE"
  /\ Len(decided) = 1
  /\ stored = 2

C10_WitnessReplace ==
  /\ bmLast.op = "store"
  /\ bmLast.had_buffer
  /\ buffer[1].text = "b"
  /\ buffer[1].id = 2

(* ====================== properties of the pipeline ==================== *)
\* the conversation states visited since construction, in order
StatesVisited ==
  <<"IDLE">> \o [i \in 1..Len(transition_history) |-> transition_history[i].to]

\* the pipeline has been fed m speech chunks followed by p or more silence
\* chunks, and nothing else
HeardOneUtterance(m, p) ==
  /\ Len(heard) >= m + p
  /\ \A i \in 1..Len(heard) : heard[i] <=> i <= m

\* the last process_turn took a turn from the queue and no collaborator it
\* called raised or returned an empty text
PolledTurn ==
  /\ tmLast.op = "process_turn"
  /\ tmLast.audio_data # <<>>
  /\ tmLast.status # "raised"
  /\ \A i \in 1..Len(tmLast.calls) :
       /\ tmLast.calls[i] = "transcribe" => tmLast.user_text # ""
       /\ tmLast.calls[i] = "generate" => tmLast.ai_response # ""

\* C6: in the assembled pipeline, once min_speech_chunks speech chunks and
\* pause_threshold_chunks or more silence chunks have been captured and the
\* orchestrator has polled the completed turn, exactly one turn has been
\* delivered to it and the conversation has passed through Idle, Listening,
\* Processing, Speaking, in that order.
C6_EndToEnd ==
  (HeardOneUtterance(min_speech_chunks, pause_threshold_chunks) /\ PolledTurn) =>
    /\ Len(taken) = 1
    /\ completed_turns = <<>>
    /\ StatesVisited = <<"IDLE", "LISTENING", "PROCESSING", "SPEAKING">>

(* ================= properties of BufferManager.decide ================= *)
\* C11: every call of decide, whatever it returns (Continue, Merge, Drop or
\* None), appends exactly one record to the decision history, and the record
\* carries the action returned.
C11_EveryDecideRecorded ==
  [][(bmLast' # bmLast /\ bmLast'.op = "decide") =>
       /\ Len(decision_history') = Len(decision_history) + 1
       /\ decision_history'[Len(decision_history')].action = bmLast'.action]_vars

(* ====================== properties of AudioBuffer ===================== *)
\* the number of samples of frame f in an audio array
Samples(f, audio) == Cardinality({i \in 1..Len(audio) : audio[i] = f.id})

\* frame f is in the audio whole and once: all its samples, side by side
Whole(f, audio) ==
  /\ Samples(f, audio) = f.n
  /\ \E k \in 1..Len(audio) : \A i \in 0..(f.n - 1) :
       k + i <= Len(audio) /\ audio[k + i] = f.id

\* the sum of the lengths of a set of frames
RECURSIVE TotalSamples(_)
TotalSamples(fs) ==
  IF fs = {} THEN 0 ELSE LET f == CHOOSE f \in fs : TRUE IN f.n + TotalSamples(fs \ {f})

\* C12: a get_audio called after the add_frame calls of all the producer
\* threads have returned, whatever their interleaving, returns audio holding
\* every added frame exactly once, its sample count the sum of the frames'
\* lengths; a get_audio that follows a clear() returns empty audio.
C12_NoSampleLostOrDuplicated ==
  \A i \in 1..Len(ab_ops) :
    (ab_ops[i].call = "get_audio" /\ ab_ops[i].quiet) =>
      /\ (\A j \in 1..(i - 1) : ab_ops[j].call = "get_audio") =>
           /\ Len(ab_ops[i].audio) = TotalSamples(ab_ops[i].returned0)
           /\ \A f \in ab_ops[i].returned0 : Whole(f, ab_ops[i].audio)
      /\ (i > 1 /\ ab_ops[i - 1].call = "clear" /\ ab_ops[i - 1].quiet
                /\ ab_ops[i - 1].returned0 = ab_ops[i].returned0) =>
           ab_ops[i].audio = <<>>

C12_Witness ==
  /\ Len(ab_ops) = 1
  /\ ab_ops[1].call = "get_audio"
  /\ ab_ops[1].quiet
  /\ Cardinality(ab_ops[1].returned0) = 2
  /\ ab_ops[1].audio = <<2, 2, 1>>

C12_WitnessCleared ==
  /\ Len(ab_ops) = 2
  /\ ab_ops[1].call = "clear" /\ ab_ops[1].quiet
  /\ ab_ops[2].call = "get_audio" /\ ab_ops[2].quiet
  /\ Cardinality(ab_ops[2].returned0) = 2
  /\ ab_ops[2].audio = <<>>

\* C13: the hand-over of a turn reads and clears the held frames in one step
\* with respect to add_frame on other threads: once it is over, every frame
\* whose add_frame returned is in the audio delivered or still in the buffer,
\* once.
C13_HandOverAtomic ==
  (ab_pc[Consumer] = Idle /\ \A j \in 1..Len(ab_ops) : ab_ops[j].call # "clear") =>
    \A f \in ab_returned :
      Samples(f, concatenate(completed_turns) \o get_audio(audio_frames)) = f.n

(* ===================== properties of AudioCapture ===================== *)
\* the step is a call of _process_chunk
ChunkProcessed == chunks' = chunks + 1

\* the chunk numbers in an audio array
ChunksOf(audio) == {audio[i] : i \in 1..Len(audio)}

\* C14: _process_chunk appends the chunk to the accumulator exactly when the
\* detector's state after processing it is SPEAKING or MAYBE_DONE, silence
\* chunks in MAYBE_DONE included; a chunk processed into SILENCE,
\* SPEECH_STARTED or TURN_COMPLETE is in no accumulated or delivered audio.
C14_AccumulatedWhileSpeaking ==
  [][ChunkProcessed =>
       IF current_state' \in {"SPEAKING", "MAYBE_DONE"}
         THEN audio_frames' = Append(audio_frames, Frame(chunks', 1))
         ELSE /\ chunks' \notin ChunksOf(get_audio(audio_frames'))
              /\ \A i \in 1..Len(completed_turns') :
                   chunks' \notin ChunksOf(completed_turns'[i])]_vars

C14_Witness ==
  /\ current_state = "MAYBE_DONE"
  /\ chunks >= 1
  /\ ~heard[chunks]
  /\ audio_frames # <<>>
  /\ audio_frames[Len(audio_frames)] = Frame(chunks, 1)

\* C15: when a chunk takes the detector to TURN_COMPLETE, the accumulated
\* audio is put on the completed-turns queue, once; the accumulator is then
\* empty, the detector is reset to SILENCE and the VAD is reset; the audio
\* shares no chunk with an earlier turn, and no other chunk enqueues a turn.
C15_TurnHandedOverOnce ==
  [][ChunkProcessed =>
       IF current_state' = "TURN_COMPLETE"
         THEN /\ audio_frames # <<>>
              /\ completed_turns' = Append(completed_turns, get_audio(audio_frames))
              /\ \A i \in 1..Len(completed_turns) :
                   ChunksOf(completed_turns[i]) \cap ChunksOf(get_audio(audio_frames)) = {}
              /\ audio_frames' = <<>>
              /\ pd_state' = "SILENCE"
              /\ speech_chunk_count' = 0
              /\ silence_chunk_count' = 0
              /\ speech_start_time' = NoTime
              /\ vad_state' = 0
         ELSE completed_turns' = completed_turns]_vars

C15_Witness ==
  /\ current_state = "TURN_COMPLETE"
  /\ Len(completed_turns) = 2
  /\ audio_frames = <<>>
  /\ pd_state = "SILENCE"

\* a sequence of speech/silence decisions has k speech chunks in a row
SpeechRunIn(seq, k) ==
  \E i \in 1..Len(seq) : i >= k /\ \A j \in (i - k + 1)..i : seq[j]

\* the decisions for the chunks processed since the detector's last reset
SinceReset == [i \in 1..Len(pdLog) |-> pdLog[i].in]

\* C16: as long as the chunks heard since the last reset hold no run of
\* min_speech_chunks speech chunks (only bursts shorter than that, however
\* many, each followed by silence), no turn is put on the completed-turns
\* queue and the accumulator is empty.
C16_FalseStartNoTurn ==
  [][(/\ ChunkProcessed
      /\ min_speech_chunks >= 1
      /\ ~SpeechRunIn(Append(SinceReset, heard'[chunks']), min_speech_chunks)) =>
       /\ completed_turns' = completed_turns
       /\ audio_frames' = <<>>]_vars

C16_Witness ==
  /\ min_speech_chunks = 3
  /\ heard = <<TRUE, TRUE, FALSE, TRUE, TRUE, FALSE>>
  /\ pd_state = "SILENCE"
  /\ completed_turns = <<>>
  /\ audio_frames = <<>>

\* the step is the _process_chunk call that completes a turn
TurnCompleted == ChunkProcessed /\ current_state' = "TURN_COMPLETE"

\* the step is a _process_chunk call that takes the false-start branch
FalseStart ==
  ChunkProcessed /\ current_state' = "SILENCE" /\ pd_state = "SPEECH_STARTED"

\* C33: after every _process_chunk call the accumulator is non-empty exactly
\* when the detector is in SPEAKING or MAYBE_DONE; every chunk that reaches
\* TURN_COMPLETE finds a non-empty accumulator and enqueues one turn, every
\* queued turn has at least one sample, and the false-start discard finds the
\* accumulator empty.
C33_AccumulatorTracksDetector ==
  /\ [](/\ (audio_frames # <<>>) <=> (pd_state \in {"SPEAKING", "MAYBE_DONE"})
        /\ \A i \in 1..Len(completed_turns) : Len(completed_turns[i]) > 0)
  /\ [][/\ TurnCompleted =>
             /\ ~is_empty(audio_frames)
             /\ Len(completed_turns') = Len(completed_turns) + 1
        /\ FalseStart => (is_empty(audio_frames) /\ audio_frames' = audio_frames)]_vars

\* a second utterance paused, the first one queued
C33_Witness ==
  /\ Len(completed_turns) = 1
  /\ pd_state = "MAYBE_DONE"
  /\ audio_frames # <<>>

\* a false start just discarded
C33_WitnessFalseStart ==
  /\ chunks >= 2
  /\ heard[chunks - 1]
  /\ ~heard[chunks]
  /\ current_state = "SILENCE"
  /\ audio_frames = <<>>

\* the process() call of the current period that promoted the detector
PromotedAt == CHOOSE i \in 1..Len(pdLog) : pdLog[i].fire_start

\* the number of the chunk fed by the i-th process() call of the period
ChunkOfCall(i) == chunks - Len(pdLog) + i

\* the turn the step has put on the queue
NewTurn == completed_turns'[Len(completed_turns')]

\* the new turn is the chunks from the promoting one to the last one before
\* the chunk of this step, in arrival order
TurnFromPromotion ==
  /\ SpeechStartFired # {}
  /\ Len(completed_turns') = Len(completed_turns) + 1
  /\ NewTurn = [k \in 1..(Len(pdLog) - PromotedAt + 1) |-> ChunkOfCall(PromotedAt) + k - 1]

\* the period, the chunk of this step included, is a silence chunks, then s
\* speech chunks, then p silence chunks
CleanUtterance(a, s, p) ==
  LET seq == Append(SinceReset, heard'[chunks'])
  IN /\ Len(seq) = a + s + p
     /\ \A j \in 1..a : ~seq[j]
     /\ \A j \in (a + 1)..(a + s) : seq[j]
     /\ \A j \in (a + s + 1)..(a + s + p) : ~seq[j]

\* for s >= m speech chunks followed by p silence chunks the turn starts with
\* the m-th speech chunk and holds s - m + p chunks
TurnCount(m, p) ==
  \A a \in 0..MaxChunks : \A s \in m..MaxChunks :
    CleanUtterance(a, s, p) =>
      /\ PromotedAt = a + m
      /\ Len(NewTurn) = s - m + p

\* C34 as stated, for every pair of thresholds of at least one chunk
C34_AnyThresholds ==
  [][TurnCompleted =>
       /\ TurnFromPromotion
       /\ (min_speech_chunks >= 1 /\ pause_threshold_chunks >= 1)
            => TurnCount(min_speech_chunks, pause_threshold_chunks)]_vars

\* C34 (amended): the audio of a completed turn is exactly the chunks from the
\* one that promoted the detector to SPEAKING through the last chunk before
\* the one that completed the turn, in arrival order; with min_speech_chunks
\* = m >= 2 and pause_threshold_chunks = p >= 2, for s >= m speech chunks
\* followed by p silence chunks the first m - 1 speech chunks and the
\* completing silence chunk are not part of it and it holds s - m + p chunks.
C34_TurnAudio ==
  [][TurnCompleted =>
       /\ TurnFromPromotion
       /\ (min_speech_chunks >= 2 /\ pause_threshold_chunks >= 2)
            => TurnCount(min_speech_chunks, pause_threshold_chunks)]_vars

\* three speech chunks and two silence chunks with thresholds of two chunks
C34_Witness ==
  /\ min_speech_chunks = 2
  /\ pause_threshold_chunks = 2
  /\ heard = <<FALSE, TRUE, TRUE, TRUE, FALSE, FALSE>>
  /\ current_state = "TURN_COMPLETE"
  /\ completed_turns = << <<3, 4, 5>> >>

\* every turn completed so far: those the consumer has been given, then those
\* still queued
AllTurns == taken \o completed_turns

\* a sequence of chunk numbers in strictly increasing order
Increasing(audio) == \A i \in 1..(Len(audio) - 1) : audio[i] < audio[i + 1]

\* the step is a call of get_turn_audio / has_completed_turn
GotTurnAudio ==
  acLast'.op = "get_turn_audio" /\ (acLast' # acLast \/ taken' # taken)
AskedForTurn == acLast'.op = "has_completed_turn" /\ acLast' # acLast

\* C31: has_completed_turn and get_turn_audio can always be taken, whatever
\* the producer is doing; get_turn_audio returns None exactly when nothing is
\* queued and otherwise the oldest queued turn, which leaves the queue; under
\* every interleaving with the producer each completed turn is either still
\* queued or was returned by one get_turn_audio call, in completion order.
C31_QueueFifo ==
  /\ [](/\ ENABLED HasCompletedTurn
        /\ ENABLED GetTurnAudio
        /\ Increasing(concatenate(AllTurns)))
  /\ [][/\ \/ AllTurns' = AllTurns
           \/ TurnCompleted /\ AllTurns' = Append(AllTurns, get_audio(audio_frames))
        /\ GotTurnAudio =>
             IF completed_turns = <<>>
               THEN acLast'.audio = <<>> /\ taken' = taken
               ELSE /\ acLast'.audio = <<Head(completed_turns)>>
                    /\ taken' = Append(taken, Head(completed_turns))
                    /\ completed_turns' = Tail(completed_turns)
        /\ AskedForTurn =>
             /\ acLast'.has <=> completed_turns # <<>>
             /\ completed_turns' = completed_turns]_vars

\* two turns were queued when the consumer asked; it got the older one
C31_Witness ==
  /\ acLast.op = "get_turn_audio"
  /\ acLast.queued = 2
  /\ Len(taken) = 1
  /\ acLast.audio = <<taken[1]>>
  /\ Len(completed_turns) = 1
  /\ taken[1][1] < completed_turns[1][1]

\* both turns handed over, one at a time, and the next call returned None
C31_WitnessNone ==
  /\ acLast.op = "get_turn_audio"
  /\ acLast.queued = 0
  /\ acLast.audio = <<>>
  /\ Len(taken) = 2
  /\ taken[1][1] < taken[2][1]

\* C32: process_audio_frame never raises, and a frame whose conversion or
\* classification fails leaves the detector, the accumulator and the
\* completed-turns queue as they were before the frame.
C32_MalformedFrameDropped ==
  /\ frame_call.status # "raised"
  /\ frame_call.malformed => IngestState = frame_call.before

\* n / d rounded up
CeilDiv(n, d) == (n + d - 1) \div d

\* the chunks C30 promises for a frame: ceil(n / 512) of them, each of 512
\* samples, the samples of the frame in order and zeros after the last one
ChunksPromised(audio) ==
  [k \in 1..CeilDiv(Len(audio), 512) |->
     [j \in 1..512 |->
        IF (k - 1) * 512 + j <= Len(audio) THEN audio[(k - 1) * 512 + j] ELSE 0]]

\* the chunks promised for the first m frames delivered, in arrival order
RECURSIVE AllPromised(_)
AllPromised(m) ==
  IF m = 0
    THEN <<>>
    ELSE AllPromised(m - 1) \o ChunksPromised(FrameSamples(m, frames_in[m]))

\* C30: a frame of n samples is passed to the pipeline as ceil(n / 512)
\* chunks of exactly 512 samples, the last one zero-padded when n is not a
\* multiple of 512, for every n up to MaxFrameSamples; nothing is carried
\* from one frame to the next: the chunks passed on, followed by those of the
\* current frame still to pass, are the chunks of each frame in arrival order.
C30_FrameChunking ==
  /\ frames_in = <<>> =>
       \A n \in 0..MaxFrameSamples :
         frame_chunks(FrameSamples(1, n), 0, AUDIO_CHUNK_SAMPLES)
           = ChunksPromised(FrameSamples(1, n))
  /\ passed \o pending = AllPromised(Len(frames_in))
  /\ \A i \in 1..Len(passed) : Len(passed[i]) = 512
  /\ Len(passed) = chunks

C30_Witness ==
  /\ frames_in = <<513, 1>>
  /\ pending = <<>>
  /\ Len(passed) = 3
  /\ passed[1][512] = FrameSamples(1, 513)[512]
  /\ passed[2][1] = FrameSamples(1, 513)[513]
  /\ passed[2][2] = 0
  /\ passed[3][1] = FrameSamples(2, 1)[1]
  /\ passed[3][512] = 0

(* ====================== properties of TurnManager ===================== *)
\* the step is a process_turn call that took a turn from the queue
TurnTaken == Len(taken') = Len(taken) + 1

\* C17: when the state machine rejects process_turn's transition to
\* PROCESSING (the state is not LISTENING or BUFFERING), process_turn returns
\* None, raises nothing and calls no collaborator, and the conversation
\* state, the memory and the response buffer are as before.
C17_RejectedPollSkipped ==
  [][(TurnTaken /\ conv_state \notin {"LISTENING", "BUFFERING"}) =>
       /\ tmLast'.op = "process_turn"
       /\ tmLast'.status = "none"
       /\ tmLast'.calls = <<>>
       /\ conv_state' = conv_state
       /\ state_enter_time' = state_enter_time
       /\ transition_history' = transition_history
       /\ memory' = memory
       /\ buffer' = buffer
       /\ decision_history' = decision_history]_vars

C17_Witness ==
  /\ tmLast.op = "process_turn"
  /\ tmLast.audio_data # <<>>
  /\ tmLast.status = "none"
  /\ tmLast.calls = <<>>
  /\ csmLast.op = "start_processing"
  /\ ~csmLast.ok
  /\ conv_state = "SPEAKING"
  /\ has_buffer(buffer)
  /\ memory # <<>>

\* C18: a turn whose poll was skipped because the transition to PROCESSING
\* was rejected stays available to the next poll: a process_turn that takes a
\* turn from the queue either transcribes it or leaves it in the queue.
C18_SkippedTurnStaysQueued ==
  [][(TurnTaken /\ \A i \in 1..Len(tmLast'.calls) : tmLast'.calls[i] # "transcribe") =>
       /\ completed_turns # <<>>
       /\ completed_turns' = completed_turns]_vars

\* C19: no exception of a collaborator (transcription, relevance
\* classification, merge, generation, synthesis) leaves process_turn: the
\* call returns, and after a failed turn the conversation is in LISTENING.
C19_CollaboratorFailureContained ==
  tmLast.op = "process_turn" =>
    /\ tmLast.status # "raised"
    /\ (tmLast.calls # <<>> /\ tmLast.status # "result") => conv_state = "LISTENING"

\* C20: a process_turn in which a collaborator fails adds nothing to the
\* conversation memory: no user turn without its reply, no user/assistant
\* pair for a response that was not synthesized.
C20_NoPartialTurnInMemory ==
  [][(TurnTaken /\ tmLast'.status = "raised") => memory' = memory]_vars

\* the collaborators and callbacks the call of record out has invoked
Calls(out) == {out.calls[i] : i \in 1..Len(out.calls)}

\* the place of the first call of name in out.calls, 0 when it was not called
CalledAt(out, name) ==
  IF name \in Calls(out)
    THEN CHOOSE i \in 1..Len(out.calls) :
           /\ out.calls[i] = name
           /\ \A j \in 1..(i - 1) : out.calls[j] # name
    ELSE 0

\* the step is a process_turn call whose input was empty: the audio taken has
\* no samples, or the transcript came back empty
EmptyInput ==
  /\ TurnTaken
  /\ \/ Len(tmLast'.audio_data) = 0
     \/ /\ "transcribe" \in Calls(tmLast')
        /\ tmLast'.status # "raised"
        /\ tmLast'.user_text = ""

BufferResolved ==
  /\ TurnTaken
  /\ has_buffer(buffer)
  /\ tmLast'.user_text # ""
  /\ tmLast'.status = "result"

\* what C23 says of every action but MERGE: the relevance is obtained, a
\* relevance below 0.3 is passed to decide as a topic change, CONTINUE returns
\* the buffered text without a generation call, DROP returns a generated
\* response, and the record carries the action decide returned
ResolvedByAction ==
  /\ "classify_relevance" \in Calls(tmLast')
  /\ bmLast'.op = "decide"
  /\ bmLast'.text = tmLast'.user_text
  /\ bmLast'.relevance_score \in RelevanceResults
  /\ bmLast'.topic_changed = (bmLast'.relevance_score < 30)
  /\ Len(bmLast'.result) = 1
  /\ bmLast'.result[1].id = buffer[1].id
  /\ bmLast'.result[1].text = buffer[1].text
  /\ buffer' = <<>>
  /\ tmLast'.buffer_action = bmLast'.action
  /\ bmLast'.action \in {"MERGE", "CONTINUE", "DROP"}
  /\ bmLast'.action = "CONTINUE" =>
       /\ tmLast'.ai_response = buffer[1].text
       /\ Calls(tmLast') \cap {"merge_response", "generate"} = {}
  /\ bmLast'.action = "DROP" =>
       /\ "generate" \in Calls(tmLast')
       /\ "merge_response" \notin Calls(tmLast')
       /\ tmLast'.ai_response \in GenerateResults

C23_WitnessContinue ==
  /\ tmLast.op = "process_turn"
  /\ tmLast.status = "result"
  /\ tmLast.buffer_action = "CONTINUE"
  /\ bmLast.op = "decide"
  /\ bmLast.result # <<>>
  /\ tmLast.ai_response = bmLast.result[1].text

C23_WitnessDrop ==
  /\ tmLast.op = "process_turn"
  /\ tmLast.status = "result"
  /\ tmLast.buffer_action = "DROP"
  /\ bmLast.op = "decide"
  /\ bmLast.relevance_score = 29
  /\ bmLast.topic_changed
  /\ tmLast.ai_response = "g"

\* C24: whenever process_turn returns a result record the response has been
\* synthesized and the conversation is in SPEAKING, the transition to
\* SPEAKING coming after the assistant text was added to the memory and after
\* synthesis; no result is returned with the conversation left in PROCESSING.
C24_ResultMeansSpeaking ==
  [][(TurnTaken /\ tmLast'.status = "result") =>
       /\ conv_state' = "SPEAKING"
       /\ csmLast'.op = "start_speaking"
       /\ tmLast'.ai_audio_bytes \in TtsResults
       /\ memory' # <<>>
       /\ memory'[Len(memory')] = [role |-> "assistant", content |-> tmLast'.ai_response]
       /\ 0 < CalledAt(tmLast', "on_ai_response")
       /\ CalledAt(tmLast', "on_ai_response") < CalledAt(tmLast', "synthesize")
       /\ tmLast'.calls[Len(tmLast'.calls)] = "on_state_change"
       /\ CalledAt(tmLast', "synthesize") = Len(tmLast'.calls) - 1]_vars

\* the threads that are past process_turn's transition to PROCESSING and
\* have not returned
InPipeline == {t \in Pollers : pt_pc[t].at = "transcribe"}

\* C22: at most one turn is in the transcription/generation/synthesis
\* pipeline at any time: of the process_turn calls running on the same state
\* machine at most one is past the transition to PROCESSING, and a call that
\* finds the conversation in PROCESSING returns without calling a
\* collaborator.
C22_OneTurnInPipeline ==
  /\ [](Cardinality(InPipeline) <= 1)
  /\ [][\A t \in Pollers :
          (pt_pc[t].at = "start_processing" /\ pt_pc'[t] # pt_pc[t]
             /\ conv_state = "PROCESSING") =>
            /\ pt_pc'[t] = Outside
            /\ tmLast'.status = "none"
            /\ tmLast'.calls = <<>>]_vars

\* the step is a call of finish_speaking
FinishedSpeaking ==
  /\ tmLast'.op = "finish_speaking"
  /\ tmLast' # tmLast \/ csmLast' # csmLast \/ conv_state' # conv_state

\* C25: finish_speaking moves a conversation in SPEAKING to LISTENING; where
\* LISTENING is not an allowed target it raises nothing and changes nothing.
\* After process_turn returned a result and finish_speaking followed, the
\* conversation is in LISTENING, from where the next turn can enter
\* PROCESSING: a process_turn that takes a turn right after a successful
\* finish_speaking gets to transcription.
C25_FinishSpeaking ==
  [][/\ FinishedSpeaking =>
          /\ tmLast'.status # "raised"
          /\ conv_state = "SPEAKING" => conv_state' = "LISTENING"
          /\ "LISTENING" \notin VALID_TRANSITIONS(conv_state) =>
               UNCHANGED <<conv_state, state_enter_time, transition_history>>
          /\ (tmLast.op = "process_turn" /\ tmLast.status = "result") =>
               /\ conv_state' = "LISTENING"
               /\ "PROCESSING" \in VALID_TRANSITIONS(conv_state')
     /\ (TurnTaken /\ tmLast.op = "finish_speaking" /\ tmLast.calls # <<>>) =>
          "transcribe" \in Calls(tmLast')]_vars

C25_Witness ==
  /\ tmLast.op = "finish_speaking"
  /\ csmLast.op = "back_to_listening"
  /\ csmLast.ok
  /\ csmLast.from = "SPEAKING"
  /\ conv_state = "LISTENING"
  /\ Len(taken) = 1
  /\ memory # <<>>
  /\ completed_turns # <<>>

C25_WitnessRejected ==
  /\ tmLast.op = "finish_speaking"
  /\ csmLast.op = "back_to_listening"
  /\ ~csmLast.ok
  /\ csmLast.from = "LISTENING"
  /\ conv_state = "LISTENING"

\* the step is a call of process_turn that found no completed turn queued
PolledNoTurn ==
  /\ completed_turns = <<>>
  /\ tmLast'.op = "process_turn"
  /\ tmLast' # tmLast

\* C26: process_turn with no completed turn queued returns None, takes
\* nothing, calls no collaborator, and leaves the conversation state, the
\* transition history, the memory and the response buffer unchanged, in
\* every conversation state.
C26_NoTurnNoOp ==
  [][PolledNoTurn =>
       /\ tmLast'.status = "none"
       /\ tmLast'.calls = <<>>
       /\ tmLast'.audio_data = <<>>
       /\ UNCHANGED <<csmVars, bmVars, acVars, memory, last_user_text, taken>>]_vars

C26_Witness ==
  /\ tmLast.op = "process_turn"
  /\ tmLast.status = "none"
  /\ tmLast.audio_data = <<>>
  /\ conv_state = "SPEAKING"
  /\ has_buffer(buffer)
  /\ memory # <<>>

C26_WitnessBuffering ==
  /\ tmLast.op = "process_turn"
  /\ tmLast.status = "none"
  /\ tmLast.audio_data = <<>>
  /\ conv_state = "BUFFERING"
  /\ Len(transition_history) = 4

\* the turns of the conversation memory alternate user, assistant
Alternates(turns) ==
  \A i \in 1..Len(turns) :
    turns[i].role = IF i % 2 = 1 THEN "user" ELSE "assistant"

\* the step is a process_turn call that appends an assistant turn
AssistantAppended ==
  /\ TurnTaken
  /\ memory' # memory
  /\ memory'[Len(memory')].role = "assistant"

====
